---- MODULE Spec2Model ----
(***************************************************************************)
(* A model of the shorts pipeline: the extract endpoint with its fallback  *)
(* chains (lib/youtube.ts), the scene validator (lib/ai.ts), the assembly  *)
(* arithmetic of generateShort (lib/video.ts) and the job orchestration of *)
(* the page and the generate endpoint.                                     *)
(***************************************************************************)
EXTENDS Integers, Sequences, FiniteSets, TLC

VARIABLES
  \* ---- one request to POST /api/extract ----
  url,          \* request body: the URL, a sequence of tokens
  hasCookies,   \* a cookies.txt is found by getCookiesPath
  openaiKey,    \* process.env.OPENAI_API_KEY is set
  pc,           \* position of the extract handler
  videoId,      \* result of extractVideoId
  tmpFiles,     \* names in tmp/<videoId>; "." is the directory itself
  captionDoc,   \* content of the caption file in tmp/<videoId>, if any
  tried,        \* attempts of the fallback chain in progress, in order
  info,         \* downloadVideo's info
  lastError,    \* downloadVideo's lastError
  subtitles,    \* the route's subtitles
  whisper,      \* transcription calls made: sequence of outputs
  response,     \* the HTTP response, NoResponse until sent
  \* ---- one call of validateScenes (lib/ai.ts) ----
  scenes,       \* the scene list: the argument, then the returned list
  planSubtitles,\* the subtitles argument
  validated,    \* validateScenes has returned
  plan,         \* one analyzeAndCreateScript, and the generate request after it
  \* ---- the speed synchronizer of generateShort (lib/video.ts) ----
  syncPc,             \* position in generateShort
  narrationDuration,  \* getMediaDuration(narrationPath), seconds
  concatSeconds,      \* duration of the concatenated track, seconds
  videoDuration,      \* getMediaDuration(concatenatedPath)
  adjusted,           \* the track at adjustedPath: how it was made, its duration
  \* ---- two submissions of the page, and the files on the server ----
  jobVideo,     \* job -> the videoId its URL resolves to
  jobPc,        \* job -> position in handleSubmit and in the route it awaits
  progress,     \* job -> progress.status of the page
  stages,       \* job -> the stages the job has started, in order
  res,          \* job -> the response the page is awaiting
  clipIdx,      \* job -> i of generateShort's clip loop
  disk,         \* the files under tmp/ and output/: path and writing job
  made,         \* job -> the paths the job has written
  cross,        \* <<job, op>>: the job did op to a file another job wrote
  \* ---- one generate request, by the durations of its tracks ----
  gen,          \* the locals of the route, generateShort and addSubtitlesToVideo
  \* ---- one call of a library function or of the download endpoint ----
  call          \* the arguments, and the result once it has returned

extractVars == <<url, hasCookies, openaiKey, pc, videoId, tmpFiles, captionDoc,
                 tried, info, lastError, subtitles, whisper, response>>

sceneVars == <<scenes, planSubtitles, validated, plan>>

syncVars == <<syncPc, narrationDuration, concatSeconds, videoDuration, adjusted>>

jobVars == <<jobVideo, jobPc, progress, stages, res, clipIdx, disk, made, cross>>

genVars == <<gen>>

callVars == <<call>>

vars == <<extractVars, sceneVars, syncVars, jobVars, genVars, callVars>>

\* what a step of one component leaves alone
notExtract == <<sceneVars, syncVars, jobVars, genVars, callVars>>
notScenes == <<extractVars, syncVars, jobVars, genVars, callVars>>
notSync == <<extractVars, sceneVars, jobVars, genVars, callVars>>
notJobs == <<extractVars, sceneVars, syncVars, genVars, callVars>>
notGen == <<extractVars, sceneVars, syncVars, jobVars, callVars>>
notCall == <<extractVars, sceneVars, syncVars, jobVars, genVars>>

\* the two browser sessions
Jobs == {1, 2}

\* JavaScript's null, and the falsy values of a JSON document
NULL == [null |-> TRUE]
\* no identifier: a match captures one token at least
NoId == <<>>
NoResponse == [status |-> 0]

\* ------------------------------------------------------------------------
\* Bounds
\* ------------------------------------------------------------------------
MaxUrlLen == 3
MaxMarkers == 1
MaxBlocks == 1
MaxScenes == 2
MinDuration == 44
MaxDuration == 67

\* ------------------------------------------------------------------------
\* extractVideoId
\* ------------------------------------------------------------------------
\* A URL is a sequence of tokens. "W" is "youtube.com/watch?v=", "b" is
\* "youtu.be/", "e" is "youtube.com/embed/", "s" is "youtube.com/shorts/",
\* "x" is a run of identifier characters, "&" is a character of the class
\* [&\n?#].  "wh" is the part "youtube.com/watch" of "W" that precedes its
\* "?": it appears in captures only.  "f" is the text "_final", one more run
\* of identifier characters.
UrlTokens == {"W", "b", "e", "s", "x", "&"}

RECURSIVE SeqsUpTo(_, _)
SeqsUpTo(S, n) ==
  IF n = 0 THEN {<<>>}
  ELSE LET shorter == SeqsUpTo(S, n - 1)
       IN  shorter \cup
           {Append(q, t) : q \in {r \in shorter : Len(r) = n - 1}, t \in S}

Urls == SeqsUpTo(UrlTokens, MaxUrlLen)

\* the ordered patterns: each is the ordered list of its alternatives
patterns == << <<"W", "b", "e">>, <<"s">> >>

\* [^&\n?#]+ read from position p: the captured tokens
RECURSIVE Capture(_, _)
Capture(u, p) ==
  IF p > Len(u) \/ u[p] = "&" THEN <<>>
  ELSE IF u[p] = "W" THEN <<"wh">>
  ELSE <<u[p]>> \o Capture(u, p + 1)

\* the pattern matches at position p: an alternative, then one character
\* of the class at least
MatchesAt(u, pattern, p) ==
  /\ p <= Len(u)
  /\ \E a \in 1..Len(pattern) : u[p] = pattern[a]
  /\ Capture(u, p + 1) # <<>>

\* url.match(pattern): the leftmost match's capture group, NULL without one
MatchPattern(u, pattern) ==
  LET at == {p \in 1..Len(u) : MatchesAt(u, pattern, p)}
  IN  IF at = {} THEN NoId
      ELSE Capture(u, (CHOOSE p \in at : \A q \in at : p <= q) + 1)

\* extractVideoId without its early return: the last pattern that matches
RECURSIVE LastMatch(_, _)
LastMatch(u, i) ==
  IF i > Len(patterns) THEN NoId
  ELSE IF LastMatch(u, i + 1) # NoId THEN LastMatch(u, i + 1)
  ELSE MatchPattern(u, patterns[i])

RECURSIVE FirstMatch(_, _)
FirstMatch(u, i) ==
  IF i > Len(patterns) THEN NoId
  ELSE IF MatchPattern(u, patterns[i]) # NoId THEN MatchPattern(u, patterns[i])
  ELSE FirstMatch(u, i + 1)

extractVideoId(u) == FirstMatch(u, 1)

\* ------------------------------------------------------------------------
\* Candidates of a fallback chain: 0 is YouTube itself, 1..4 the mirrors
\* ------------------------------------------------------------------------
INVIDIOUS_INSTANCES == <<"inv.nadeko.net", "invidious.nerdvpn.de",
                         "invidious.jing.rocks", "yt.artemislena.eu">>
Primary == 0
Mirrors == 1..Len(INVIDIOUS_INSTANCES)
LastMirror == Len(INVIDIOUS_INSTANCES)

\* what candidate k answers to --dump-json when it succeeds
MetaOf(k) == [title |-> <<"title", k>>, duration |-> 60 + k]

\* ------------------------------------------------------------------------
\* Error texts and their classification
\* ------------------------------------------------------------------------
\* An error text is the set of the phrases it holds.
Phrases == {"Sign in to confirm you're not a bot", "confirm you're not a bot",
            "bot", "not made this video available in your country",
            "not available in your country", "Video unavailable",
            "Private video", "Sign in to confirm your age"}

\* needle is a substring of phrase
SubstringOf(needle, phrase) ==
  \/ needle = phrase
  \/ /\ needle = "bot"
     /\ phrase \in {"Sign in to confirm you're not a bot",
                    "confirm you're not a bot"}
  \/ /\ needle = "confirm you're not a bot"
     /\ phrase = "Sign in to confirm you're not a bot"

\* lastError.includes(needle)
includes(text, needle) == \E phrase \in text : SubstringOf(needle, phrase)

ErrorTexts == {t \in SUBSET Phrases : Cardinality(t) <= MaxMarkers}

\* the texts a mirror's failure may carry
MirrorErrorTexts == {{}, {"bot"}}

\* the texts the failure of the media download on YouTube may carry
DownloadErrorTexts == {{}, {"Video unavailable"}}

\* the error downloadVideo throws when no candidate gave metadata
ClassifyError(text) ==
  IF \/ includes(text, "Sign in to confirm you're not a bot")
     \/ includes(text, "confirm you're not a bot")
     \/ includes(text, "bot")
    THEN "BotDetection"
  ELSE IF \/ includes(text, "not made this video available in your country")
          \/ includes(text, "not available in your country")
    THEN "RegionBlocked"
  ELSE IF includes(text, "Video unavailable") \/ includes(text, "Private video")
    THEN "Unavailable"
  ELSE IF includes(text, "Sign in to confirm your age")
    THEN "AgeRestricted"
  ELSE "Unknown"

ErrorKinds == {"BotDetection", "RegionBlocked", "Unavailable", "AgeRestricted",
               "Unknown"}

\* ------------------------------------------------------------------------
\* Caption documents and parseSRT
\* ------------------------------------------------------------------------
\* a parsed number is <<n>>; parseFloat's NaN is the empty tuple
NaN == <<>>
Num(n) == <<n>>

\* text.replace(/<[^>]*>/g, "").trim()
StripMarkup(text) ==
  IF text \in {"", " ", "<i></i>"} THEN ""
  ELSE IF text = "<b>hi</b>" THEN "hi"
  ELSE text

\* A block: its number of lines, whether a line holds "-->", the parsed
\* endpoints of that line and the joined lines after it.
SampleBlocks ==
  { [lines |-> 3, arrow |-> TRUE,  start |-> Num(0), end |-> Num(2), text |-> "<b>hi</b>"],
    [lines |-> 2, arrow |-> FALSE, start |-> NaN, end |-> NaN, text |-> "hi"],
    [lines |-> 2, arrow |-> TRUE,  start |-> Num(2), end |-> Num(4), text |-> "<i></i>"],
    [lines |-> 3, arrow |-> TRUE,  start |-> NaN, end |-> Num(4), text |-> "yo"] }

CaptionDocs == SeqsUpTo(SampleBlocks, MaxBlocks)

KeepsBlock(b) ==
  /\ b.lines >= 2
  /\ b.arrow
  /\ StripMarkup(b.text) # "" /\ b.start # NaN /\ b.end # NaN

RECURSIVE parseSRT(_)
parseSRT(content) ==
  IF content = <<>> THEN <<>>
  ELSE LET b == Head(content)
       IN  (IF KeepsBlock(b)
              THEN << [start |-> b.start[1], end |-> b.end[1],
                       text |-> StripMarkup(b.text)] >>
              ELSE <<>>) \o parseSRT(Tail(content))

\* what the transcription collaborator may answer
WhisperOutputs == {<<>>, << [start |-> 0, end |-> 4, text |-> "spoken"] >>}

\* ------------------------------------------------------------------------
\* POST /api/extract: one request
\* ------------------------------------------------------------------------
\* getYtDlpOpts: the client profile and the credentials of a yt-dlp call on
\* YouTube itself
getYtDlpOpts ==
  [client |-> IF hasCookies THEN "web" ELSE "ios,web", cookies |-> hasCookies]

\* the options of a call on a mirror: --no-warnings alone
MirrorOpts == [client |-> "default", cookies |-> FALSE]

\* a chain that asks YouTube again in place of mirror k
AttemptAgain(op, k, outcome, text) ==
  [op |-> op, cand |-> Primary, outcome |-> outcome, text |-> text,
   opts |-> getYtDlpOpts]

\* one attempt of a chain, as executed
Attempt(op, k, outcome, text) ==
  [op |-> op, cand |-> k, outcome |-> outcome, text |-> text,
   opts |-> IF k = Primary THEN getYtDlpOpts ELSE MirrorOpts]

\* the route's catch: a thrown error becomes a 500 response
Throw(error) ==
  /\ response' = [status |-> 500, error |-> error]
  /\ pc' = "done"

\* the caption file a previous request for the same video may have left
StaleDoc == << [lines |-> 3, arrow |-> TRUE, start |-> Num(0), end |-> Num(2),
                text |-> "old"] >>

\* the URL shapes of the source resolver, and a text that is no video URL
SampleUrls == { <<"W", "x">>, <<"s", "x", "f">>, <<"x", "&">> }

\* the variables of the other components, at rest
NoAnalyze == plan = [pc |-> "off"]

NoPlan == scenes = <<>> /\ planSubtitles = <<>> /\ validated = FALSE /\ NoAnalyze

NoSync ==
  /\ syncPc = "off" /\ narrationDuration = 0 /\ concatSeconds = 0
  /\ videoDuration = 0 /\ adjusted = [how |-> "none", duration |-> 0]

NoGen == gen = [pc |-> "off"]

NoCall == call = [pc |-> "off"]

NoJobs ==
  /\ jobVideo = [j \in Jobs |-> NoId]
  /\ jobPc = [j \in Jobs |-> "off"]
  /\ progress = [j \in Jobs |-> "idle"]
  /\ stages = [j \in Jobs |-> <<>>]
  /\ res = [j \in Jobs |-> NoResponse]
  /\ clipIdx = [j \in Jobs |-> 0]
  /\ disk = {} /\ made = [j \in Jobs |-> {}] /\ cross = {}

\* no extract request
NoRequest ==
  /\ url = <<>> /\ hasCookies = FALSE /\ openaiKey = FALSE /\ pc = "off"
  /\ videoId = NoId /\ tmpFiles = {} /\ captionDoc = <<>> /\ tried = <<>>
  /\ info = NULL /\ lastError = {} /\ subtitles = <<>> /\ whisper = <<>>
  /\ response = NoResponse

InitRequest ==
  /\ NoPlan /\ NoSync /\ NoJobs /\ NoGen /\ NoCall
  /\ pc = "start"
  /\ videoId = NoId
  /\ tried = <<>>
  /\ info = NULL
  /\ lastError = {}
  /\ subtitles = <<>>
  /\ whisper = <<>>
  /\ response = NoResponse

\* every configuration, on the sample URLs
InitExtract ==
  /\ url \in SampleUrls
  /\ hasCookies \in BOOLEAN
  /\ openaiKey \in BOOLEAN
  /\ \/ tmpFiles = {} /\ captionDoc = <<>>
     \/ tmpFiles = {".", "srt"} /\ captionDoc = StaleDoc
  /\ InitRequest

\* every URL of the bound, with credentials and a transcription key
InitUrl ==
  /\ url \in Urls
  /\ hasCookies = TRUE
  /\ openaiKey = TRUE
  /\ tmpFiles = {} /\ captionDoc = <<>>
  /\ InitRequest

\* the route up to its first await on downloadVideo's first yt-dlp call
ExtractStart ==
  /\ pc = "start"
  /\ UNCHANGED notExtract
  /\ IF url = <<>>
       THEN /\ response' = [status |-> 400, error |-> "URL required"]
            /\ pc' = "done"
            /\ UNCHANGED <<videoId, tmpFiles>>
     ELSE IF extractVideoId(url) = NoId
       THEN /\ response' = [status |-> 400, error |-> "InvalidInput"]
            /\ pc' = "done"
            /\ UNCHANGED <<videoId, tmpFiles>>
     ELSE /\ videoId' = extractVideoId(url)
          /\ tmpFiles' = tmpFiles \cup {"."}
          /\ pc' = "info"
          /\ UNCHANGED response
  /\ UNCHANGED <<url, hasCookies, openaiKey, captionDoc, tried, info, lastError,
                 subtitles, whisper>>

\* downloadVideo: --dump-json on YouTube itself
FetchInfoPrimary ==
  /\ pc = "info"
  /\ UNCHANGED notExtract
  /\ \E outcome \in {"ok", "falsy", "fail"}, text \in ErrorTexts :
       /\ outcome # "fail" => text = {}
       /\ tried' = <<Attempt("info", Primary, outcome, text)>>
       /\ info' = IF outcome = "ok" THEN MetaOf(Primary) ELSE NULL
       /\ lastError' = IF outcome = "fail" THEN text ELSE lastError
       /\ pc' = IF outcome = "ok" THEN "download" ELSE "infoMirror"
  /\ UNCHANGED <<url, hasCookies, openaiKey, videoId, tmpFiles, captionDoc,
                 subtitles, whisper, response>>

\* a catch that records the mirror's error as the primary's is recorded
CatchMirrorErrorRecords(last, text) == text

\* the catch of a mirror's attempt: lastError after it, given the text the
\* mirror failed with (the catch logs and continues)
CatchMirrorError(last, text) == last

\* the loop over the mirrors without its break
BreaksLoopNever(outcome) == FALSE

\* a mirror's attempt ends the loop: the break follows the parse in the try
BreaksLoop(outcome) == outcome # "fail"

\* downloadVideo: --dump-json on the next mirror; after the loop, the
\* classified error when no metadata was found
FetchInfoMirror ==
  /\ pc = "infoMirror"
  /\ UNCHANGED notExtract
  /\ LET k == Len(tried)
     IN  \E outcome \in {"ok", "falsy", "fail"}, text \in MirrorErrorTexts :
           /\ outcome # "fail" => text = {}
           /\ tried' = Append(tried, Attempt("info", k, outcome, {}))
           /\ info' = IF outcome = "ok" THEN MetaOf(k)
                      ELSE IF outcome = "falsy" THEN NULL
                      ELSE info
           /\ LET caught == IF outcome = "fail"
                              THEN CatchMirrorError(lastError, text)
                              ELSE lastError
              IN  IF ~BreaksLoop(outcome) /\ k # LastMirror
                    THEN /\ pc' = "infoMirror"
                         /\ lastError' = caught
                         /\ UNCHANGED response
                  ELSE IF info' # NULL
                    \* lastError is not read once the metadata is there
                    THEN /\ pc' = "download"
                         /\ lastError' = {}
                         /\ UNCHANGED response
                  ELSE /\ Throw(ClassifyError(caught))
                       /\ lastError' = caught
  /\ UNCHANGED <<url, hasCookies, openaiKey, videoId, tmpFiles, captionDoc,
                 subtitles, whisper>>

\* downloadVideo: the media download on YouTube itself
DownloadPrimary ==
  /\ pc = "download"
  /\ UNCHANGED notExtract
  /\ \E outcome \in {"ok", "fail"}, text \in DownloadErrorTexts :
       /\ outcome = "fail" <=> text # {}
       /\ tried' = <<Attempt("download", Primary, outcome, text)>>
       /\ tmpFiles' = IF outcome = "ok" THEN tmpFiles \cup {"mp4"} ELSE tmpFiles
       /\ pc' = IF outcome = "ok" THEN "audio" ELSE "downloadMirror"
  /\ UNCHANGED <<url, hasCookies, openaiKey, videoId, captionDoc, info,
                 lastError, subtitles, whisper, response>>

\* downloadVideo: the media download on the next mirror
DownloadMirror ==
  /\ pc = "downloadMirror"
  /\ UNCHANGED notExtract
  /\ LET k == Len(tried)
     IN  \E outcome \in {"ok", "fail"} :
           /\ tried' = Append(tried, Attempt("download", k, outcome, {}))
           /\ tmpFiles' = IF outcome = "ok" THEN tmpFiles \cup {"mp4"}
                          ELSE tmpFiles
           /\ IF outcome = "ok"
                THEN pc' = "audio" /\ UNCHANGED response
              ELSE IF k = LastMirror
                THEN Throw("DownloadFailed")
              ELSE pc' = "downloadMirror" /\ UNCHANGED response
  /\ UNCHANGED <<url, hasCookies, openaiKey, videoId, captionDoc, info,
                 lastError, subtitles, whisper>>

\* downloadVideo: ffmpeg extracts the audio; downloadVideo returns
ExtractAudio ==
  /\ pc = "audio"
  /\ UNCHANGED notExtract
  /\ \/ /\ tmpFiles' = tmpFiles \cup {"mp3"}
        /\ pc' = "subs"
        /\ tried' = <<>>
        /\ UNCHANGED response
     \/ /\ Throw("EncodingFailed")
        /\ UNCHANGED <<tmpFiles, tried>>
  /\ UNCHANGED <<url, hasCookies, openaiKey, videoId, captionDoc, info,
                 lastError, subtitles, whisper>>

\* a yt-dlp caption call that exits 0 writes the caption file when the
\* video has captions
CaptionOutcome(outcome, doc) ==
  /\ tmpFiles' = IF outcome = "file" THEN tmpFiles \cup {"srt"} ELSE tmpFiles
  /\ captionDoc' = IF outcome = "file" THEN doc ELSE captionDoc

\* downloadSubtitles: the caption call on YouTube itself
FetchSubsPrimary ==
  /\ pc = "subs"
  /\ UNCHANGED notExtract
  /\ \E outcome \in {"file", "nofile", "fail"}, doc \in CaptionDocs :
       /\ outcome # "file" => doc = <<>>
       /\ tried' = <<Attempt("subs", Primary, outcome, {})>>
       /\ CaptionOutcome(outcome, doc)
       /\ pc' = IF outcome = "fail" THEN "subsMirror" ELSE "subsRead"
  /\ UNCHANGED <<url, hasCookies, openaiKey, videoId, info, lastError,
                 subtitles, whisper, response>>

\* downloadSubtitles: the caption call on the next mirror
FetchSubsMirror ==
  /\ pc = "subsMirror"
  /\ UNCHANGED notExtract
  /\ LET k == Len(tried)
     IN  \E outcome \in {"file", "nofile", "fail"}, doc \in CaptionDocs :
           /\ outcome # "file" => doc = <<>>
           /\ tried' = Append(tried, Attempt("subs", k, outcome, {}))
           /\ CaptionOutcome(outcome, doc)
           /\ pc' = IF outcome = "fail" /\ k # LastMirror THEN "subsMirror"
                    ELSE "subsRead"
  /\ UNCHANGED <<url, hasCookies, openaiKey, videoId, info, lastError,
                 subtitles, whisper, response>>

\* readdir and readFile of downloadSubtitles succeed or fail
Readable == BOOLEAN

\* downloadSubtitles without the try around readdir and readFile
FindSubtitlesUncaught(files, content, readable) ==
  [threw |-> ~readable,
   subs  |-> IF "srt" \in files /\ readable THEN parseSRT(content) ELSE <<>>]

\* downloadSubtitles, from "Find the subtitle file": what it returns given the
\* directory, the file's content and whether readdir and readFile succeed
\* ([threw |-> TRUE] would be an error leaving downloadSubtitles)
FindSubtitles(files, content, readable) ==
  [threw |-> FALSE,
   subs  |-> IF "srt" \in files /\ readable THEN parseSRT(content) ELSE <<>>]

\* a route that transcribes whatever the captions gave
NeedsTranscriptionAlways(subs) == TRUE

\* the route's test before Whisper: subtitles.length === 0
NeedsTranscription(subs) == Len(subs) = 0

\* the route's answer to a finished extraction
ExtractResponse(subs) ==
  [status |-> 200, videoId |-> videoId, title |-> info.title,
   duration |-> info.duration, subtitles |-> subs]

\* downloadSubtitles returns; the route answers, or goes on to Whisper
ReadSubs ==
  /\ pc = "subsRead"
  /\ UNCHANGED notExtract
  /\ \E readable \in Readable :
       LET found == FindSubtitles(tmpFiles, captionDoc, readable)
           subs == found.subs
       IN  /\ subtitles' = subs
           /\ IF found.threw
                THEN Throw("CaptionsFailed")
              ELSE IF ~NeedsTranscription(subs)
                THEN response' = ExtractResponse(subs) /\ pc' = "done"
              ELSE IF ~openaiKey
                THEN response' = [status |-> 500, error |-> "NoTranscriptionKey"]
                     /\ pc' = "done"
              ELSE pc' = "whisper" /\ UNCHANGED response
  /\ UNCHANGED <<url, hasCookies, openaiKey, videoId, tmpFiles, captionDoc,
                 tried, info, lastError, whisper>>

\* transcribeWithWhisper, and the route's answer
Transcribe ==
  /\ pc = "whisper"
  /\ UNCHANGED notExtract
  /\ \/ \E out \in WhisperOutputs :
          /\ whisper' = Append(whisper, [ok |-> TRUE, out |-> out])
          /\ subtitles' = out
          /\ response' = ExtractResponse(out)
          /\ pc' = "done"
     \/ /\ whisper' = Append(whisper, [ok |-> FALSE, out |-> <<>>])
        /\ Throw("TranscriptionFailed")
        /\ UNCHANGED subtitles
  /\ UNCHANGED <<url, hasCookies, openaiKey, videoId, tmpFiles, captionDoc,
                 tried, info, lastError>>

NextExtract ==
  \/ ExtractStart
  \/ FetchInfoPrimary
  \/ FetchInfoMirror
  \/ DownloadPrimary
  \/ DownloadMirror
  \/ ExtractAudio
  \/ FetchSubsPrimary
  \/ FetchSubsMirror
  \/ ReadSubs
  \/ Transcribe

SpecExtract == InitExtract /\ [][NextExtract]_vars

SpecUrl == InitUrl /\ [][NextExtract]_vars

\* every await of the handler settles: execAsync resolves or rejects, and so
\* do the file system calls and the transcription request
SpecExtractFair == SpecExtract /\ WF_vars(NextExtract)

\* ------------------------------------------------------------------------
\* Claims on the extract request
\* ------------------------------------------------------------------------
\* the attempts in `tried` are those of chain op
ChainIs(op) == tried # <<>> /\ tried[1].op = op

\* C1: metadata resolution attempts YouTube first and then the mirrors in
\* list order; the first candidate that succeeds gives the metadata and no
\* candidate is attempted after it; with a primary failing on a text holding
\* "bot" and a first mirror succeeding, the metadata is the first mirror's and
\* mirrors 2..4 are not attempted.
C1_Order ==
  ChainIs("info") =>
    /\ \A i \in 1..Len(tried) : tried[i].op = "info" /\ tried[i].cand = i - 1
    /\ \A i \in 1..Len(tried) :
         tried[i].outcome = "ok" => i = Len(tried) /\ info = MetaOf(i - 1)
    /\ info # NULL => tried[Len(tried)].outcome = "ok" /\ pc = "download"
    /\ ( /\ Len(tried) >= 2
         /\ tried[1].outcome = "fail" /\ includes(tried[1].text, "bot")
         /\ tried[2].outcome = "ok" )
       => info = MetaOf(1) /\ Len(tried) = 2

C1_FirstSuccessWins ==
  /\ []C1_Order
  /\ [][info # NULL => info' = info /\ ~(FetchInfoPrimary \/ FetchInfoMirror)]_vars

C1_Witness ==
  /\ pc = "download" /\ Len(tried) = 2
  /\ tried[1].op = "info" /\ tried[1].outcome = "fail"
  /\ includes(tried[1].text, "bot")
  /\ tried[2].outcome = "ok" /\ info = MetaOf(1)

\* C2: when YouTube and every mirror fail to give metadata, downloadVideo
\* fails with one kind of the five, the classification of the primary's error
\* text alone; nothing is returned, and neither the media download nor the
\* audio extraction is attempted afterwards.
AllInfoFailed ==
  /\ ChainIs("info") /\ Len(tried) = 1 + LastMirror
  /\ \A i \in 1..Len(tried) : tried[i].outcome # "ok"

C2_State ==
  AllInfoFailed =>
    /\ pc = "done" /\ info = NULL
    /\ response.status = 500
    /\ response.error \in ErrorKinds
    /\ response.error = ClassifyError(tried[1].text)

C2_ClassifiedByPrimary ==
  /\ []C2_State
  /\ [][AllInfoFailed => ~(DownloadPrimary \/ DownloadMirror \/ ExtractAudio)
                         /\ response' = response]_vars

C2_Witness ==
  /\ AllInfoFailed /\ response.status = 500
  /\ response.error = "AgeRestricted"

\* C7: downloadSubtitles never fails: whatever YouTube and each mirror do,
\* and whether or not a caption file is found and readable afterwards, it
\* returns a list, the empty one when the directory holds no caption file.
SubsReturned == ChainIs("subs") /\ pc \in {"whisper", "done"}

C8_State ==
  /\ pc = "whisper" => subtitles = <<>>
  /\ Len(whisper) <= 1
  /\ response.status = 200 =>
       IF whisper = <<>>
         THEN /\ response.subtitles = parseSRT(captionDoc)
              /\ response.subtitles # <<>>
         ELSE /\ whisper[1].ok
              /\ response.subtitles = whisper[1].out

C8_TranscriptionOnlyWithoutCaptions ==
  /\ []C8_State
  /\ [][whisper' # whisper => subtitles = <<>> /\ pc = "whisper"]_vars

C8_Witness ==
  /\ response.status = 200 /\ whisper # <<>>
  /\ response.subtitles # <<>>

\* C22: the media download attempts YouTube first and then the mirrors in
\* list order and stops at the first success; when every candidate fails the
\* job fails with the kind classified from the primary's error text, one of
\* the five, and nothing is returned.
AllDownloadsFailed ==
  /\ ChainIs("download") /\ Len(tried) = 1 + LastMirror
  /\ \A i \in 1..Len(tried) : tried[i].outcome = "fail"

C22_DownloadOrder ==
  ChainIs("download") =>
    /\ \A i \in 1..Len(tried) : tried[i].op = "download" /\ tried[i].cand = i - 1
    /\ \A i \in 1..Len(tried) : tried[i].outcome = "ok" => i = Len(tried)

C22_DownloadFailureClassified ==
  /\ C22_DownloadOrder
  /\ AllDownloadsFailed =>
       /\ pc = "done" /\ response.status = 500
       /\ response.error \in ErrorKinds
       /\ response.error = ClassifyError(tried[1].text)

\* C23: a chain makes at most 1 + 4 = 5 attempts, never attempts a candidate
\* twice, starts a candidate only after the one before it has failed, one
\* attempt at a time, and every request ends.
C23_State ==
  tried # <<>> =>
    /\ Len(tried) <= 5 /\ Len(tried) <= 1 + Len(INVIDIOUS_INSTANCES)
    /\ \A i, j \in 1..Len(tried) :
         /\ tried[i].op = tried[j].op
         /\ i # j => tried[i].cand # tried[j].cand
    /\ \A i \in 1..(Len(tried) - 1) : tried[i].outcome \in {"fail", "falsy"}
    /\ Len(tried) = 5 => pc \notin {"infoMirror", "downloadMirror", "subsMirror"}

C23_Step ==
  tried' # tried =>
    \/ tried' = <<>>
    \/ Len(tried') = 1 /\ tried'[1].cand = Primary
    \/ Len(tried') = Len(tried) + 1 /\ SubSeq(tried', 1, Len(tried)) = tried

C23_ChainsTerminate ==
  /\ []C23_State
  /\ [][C23_Step]_vars
  /\ <>(pc = "done")

C23_Witness ==
  /\ pc = "audio" /\ ChainIs("download") /\ Len(tried) = 5
  /\ tried[5].cand = LastMirror /\ tried[5].outcome = "ok"

\* C9: extractVideoId returns the capture of the first pattern, in their
\* order, that matches; for a URL matching none it returns no identifier, and
\* the route then answers 400 without creating the working directory and
\* without any metadata, media or caption attempt.
FirstPatternCapture(u) ==
  IF MatchPattern(u, patterns[1]) # NoId THEN MatchPattern(u, patterns[1])
  ELSE MatchPattern(u, patterns[2])

\* no recognised shape is followed by an identifier character
NoShape(u) ==
  \A p \in 1..Len(u) :
    u[p] \in {"W", "b", "e", "s"} => (p = Len(u) \/ u[p + 1] = "&")

C9_InvalidUrlStops ==
  /\ pc = "start" =>
       /\ extractVideoId(url) = FirstPatternCapture(url)
       /\ NoShape(url) <=> extractVideoId(url) = NoId
  /\ pc = "info" => videoId = FirstPatternCapture(url) /\ videoId # NoId
  /\ pc # "start" /\ NoShape(url) =>
       /\ videoId = NoId
       /\ pc = "done" /\ response.status = 400
       /\ tmpFiles = {} /\ tried = <<>> /\ info = NULL
       /\ whisper = <<>> /\ subtitles = <<>>

C9_Witness ==
  /\ pc = "done" /\ url # <<>> /\ videoId = NoId
  /\ response.status = 400

\* ------------------------------------------------------------------------
\* validateScenes
\* ------------------------------------------------------------------------
Max(a, b) == IF a >= b THEN a ELSE b
Min(a, b) == IF a <= b THEN a ELSE b

\* subtitles[subtitles.length - 1]?.end || 300
maxTime(subs) ==
  IF Len(subs) = 0 \/ subs[Len(subs)].end = 0 THEN 300
  ELSE subs[Len(subs)].end

validateScene(scene, subs) ==
  [startTime |-> Max(0, Min(scene.startTime, maxTime(subs) - 5)),
   endTime |-> Max(scene.startTime + 2, Min(scene.endTime, maxTime(subs))),
   narrationText |-> scene.narrationText]

\* a validator that drops the scenes it cannot repair
validateScenesDropping(list, subs) ==
  SelectSeq([i \in 1..Len(list) |-> validateScene(list[i], subs)],
            LAMBDA scene : scene.endTime <= maxTime(subs))

validateScenes(list, subs) ==
  IF Len(list) = 0 THEN <<>>
  ELSE [i \in 1..Len(list) |-> validateScene(list[i], subs)]

\* the times a planner may name, and the ends of the last subtitle
SceneTimes == {-3, 0, 4, 7, 12, 299, 304}
SubtitleEnds == {0, 3, 10}

ScenesIn ==
  SeqsUpTo({[startTime |-> a, endTime |-> b, narrationText |-> "one two"] :
              a \in SceneTimes, b \in SceneTimes}, MaxScenes)

SubtitlesIn ==
  {<<>>} \cup {<<[start |-> 0, end |-> e, text |-> "t"]>> : e \in SubtitleEnds}

InitScenes ==
  /\ NoRequest /\ NoSync /\ NoJobs /\ NoGen /\ NoCall
  /\ scenes \in ScenesIn
  /\ planSubtitles \in SubtitlesIn
  /\ validated = FALSE
  /\ NoAnalyze

\* scenes = validateScenes(scenes, subtitles)
Validate ==
  /\ ~validated
  /\ UNCHANGED notScenes
  /\ scenes' = validateScenes(scenes, planSubtitles)
  /\ validated' = TRUE
  /\ UNCHANGED <<planSubtitles, plan>>

NextScenes == Validate

SpecScenes == InitScenes /\ [][NextScenes]_vars

\* C3: every scene validateScenes returns satisfies
\* 0 <= startTime < endTime <= maxSourceTime and endTime - startTime >= 2,
\* whatever the scenes and the subtitles given.
C3_ValidatedSceneBounds ==
  validated =>
    \A i \in 1..Len(scenes) :
      /\ 0 <= scenes[i].startTime
      /\ scenes[i].startTime < scenes[i].endTime
      /\ scenes[i].endTime <= maxTime(planSubtitles)
      /\ scenes[i].endTime - scenes[i].startTime >= 2

\* ------------------------------------------------------------------------
\* generateShort: speed synchronisation (whole seconds, exact fractions)
\* ------------------------------------------------------------------------
Durations == MinDuration..MaxDuration

\* a fraction n/d is the pair <<n, d>>
Abs(n) == IF n < 0 THEN -n ELSE n

\* speedFactor = videoDuration / narrationDuration
speedFactor(dv, dn) == <<dv, dn>>

\* Math.abs(speedFactor - 1) > 0.1
NeedsRescale(sf) == 10 * Abs(sf[1] - sf[2]) > sf[2]

\* setpts=<factor>*PTS with the factor as written
SetptsDirect(sf) == sf

\* setpts=${1 / speedFactor}*PTS
SetptsFactor(sf) == <<sf[2], sf[1]>>

\* duration of a track of the given length after setpts=<factor>*PTS
Rescaled(seconds, factor) == (seconds * factor[1]) \div factor[2]

InitSync ==
  /\ NoRequest /\ NoPlan /\ NoJobs /\ NoGen /\ NoCall
  /\ syncPc = "measure"
  /\ narrationDuration \in Durations
  /\ concatSeconds \in Durations
  /\ videoDuration = 0
  /\ adjusted = [how |-> "none", duration |-> 0]

\* const videoDuration = await getMediaDuration(concatenatedPath)
MeasureVideo ==
  /\ syncPc = "measure"
  /\ UNCHANGED notSync
  /\ videoDuration' = concatSeconds
  /\ syncPc' = "adjust"
  /\ UNCHANGED <<narrationDuration, concatSeconds, adjusted>>

\* the if/else around the setpts run and the copy
AdjustSpeed ==
  /\ syncPc = "adjust"
  /\ UNCHANGED notSync
  /\ LET sf == speedFactor(videoDuration, narrationDuration)
     IN adjusted' =
          IF NeedsRescale(sf)
          THEN [how |-> "setpts",
                duration |-> Rescaled(concatSeconds, SetptsFactor(sf))]
          ELSE [how |-> "copy", duration |-> concatSeconds]
  /\ syncPc' = "done"
  /\ UNCHANGED <<narrationDuration, concatSeconds, videoDuration>>

NextSync == MeasureVideo \/ AdjustSpeed

SpecSync == InitSync /\ [][NextSync]_vars

VideoIds == { <<"a">>, <<"a", "_final">> }

\* clips cut by one generateShort
MaxClips == 1

\* path.join(process.cwd(), "tmp", videoId) and .../output
TmpDir(id) == <<"tmp">> \o id
OutputDir == <<"output">>

\* path.join(dir, name); a name is the id followed by the text after it
Path(dir, name) == [dir |-> dir, name |-> name]
InTmp(j, suffix) == Path(TmpDir(jobVideo[j]), jobVideo[j] \o suffix)
ClipPath(j, i) == Path(TmpDir(jobVideo[j]), <<"clip_", ToString(i), ".mp4">>)
ConcatFile(j) == Path(TmpDir(jobVideo[j]), <<"concat", ".txt">>)
VideoPath(j) == InTmp(j, <<".mp4">>)
AudioPath(j) == InTmp(j, <<".mp3">>)
SubFile(j) == InTmp(j, <<".srt">>)
NarrationPath(j) == InTmp(j, <<"_narration", ".mp3">>)
ConcatenatedPath(j) == InTmp(j, <<"_concat", ".mp4">>)
AdjustedPath(j) == InTmp(j, <<"_adjusted", ".mp4">>)
ShortPath(j) == InTmp(j, <<"_short", ".mp4">>)
TrimmedPath(j) == InTmp(j, <<"_final", ".mp4">>)
FinalPath(j) == Path(OutputDir, jobVideo[j] \o <<"_final", ".mp4">>)

\* file.includes(part), on the pieces of a file name
NameIncludes(name, part) == \E i \in DOMAIN name : name[i] = part

\* videoPath.replace(".mp4", ".ass"): the first ".mp4" of the name
ReplaceFirst(name, old, new) ==
  IF ~NameIncludes(name, old) THEN name
  ELSE LET i == CHOOSE k \in DOMAIN name :
                  name[k] = old /\ \A m \in 1..(k - 1) : name[m] # old
       IN [name EXCEPT ![i] = new]

AssPath(j) ==
  Path(ShortPath(j).dir, ReplaceFirst(ShortPath(j).name, ".mp4", ".ass"))

Exists(p) == \E f \in disk : f.path = p
Foreign(j, paths) == \E f \in disk : f.path \in paths /\ f.by # j

\* one file-system step of job j: the files it reads, writes and unlinks
Touch(j, reads, writes, unlinks) ==
  /\ disk' = {f \in disk : f.path \notin (writes \cup unlinks)}
               \cup {[path |-> p, by |-> j] : p \in writes}
  /\ made' = [made EXCEPT ![j] = @ \cup writes]
  /\ cross' = cross
       \cup (IF Foreign(j, reads) THEN {<<j, "read">>} ELSE {})
       \cup (IF Foreign(j, writes) THEN {<<j, "overwrite">>} ELSE {})
       \cup (IF Foreign(j, unlinks) THEN {<<j, "unlink">>} ELSE {})

\* the route answers; the page's await resumes at `back`
Respond(j, status, back) ==
  /\ res' = [res EXCEPT ![j] = [status |-> status]]
  /\ jobPc' = [jobPc EXCEPT ![j] = back]

Goto(j, next) == jobPc' = [jobPc EXCEPT ![j] = next] /\ UNCHANGED res

Started(j, stage) == stages' = [stages EXCEPT ![j] = Append(@, stage)]

InitJobs ==
  /\ NoRequest /\ NoPlan /\ NoSync /\ NoGen /\ NoCall
  /\ jobVideo \in {v \in [Jobs -> VideoIds] : v[1] = <<"a">>}
  /\ jobPc = [j \in Jobs |-> "idle"]
  /\ progress = [j \in Jobs |-> "idle"]
  /\ stages = [j \in Jobs |-> <<>>]
  /\ res = [j \in Jobs |-> NoResponse]
  /\ clipIdx = [j \in Jobs |-> 0]
  /\ disk = {} /\ made = [j \in Jobs |-> {}] /\ cross = {}

\* handleSubmit up to the first fetch
Submit(j) ==
  /\ jobPc[j] = "idle" /\ progress[j] = "idle"
  /\ UNCHANGED notJobs
  /\ progress' = [progress EXCEPT ![j] = "extracting"]
  /\ Started(j, "extract")
  /\ Goto(j, "download")
  /\ UNCHANGED <<jobVideo, clipIdx, disk, made, cross>>

\* extract route: mkdir, then downloadVideo up to the media file
JobDownloadVideo(j) ==
  /\ jobPc[j] = "download"
  /\ UNCHANGED notJobs
  /\ \E ok \in BOOLEAN :
       IF ok THEN Touch(j, {}, {VideoPath(j)}, {}) /\ Goto(j, "audio")
       ELSE Respond(j, 500, "extracted") /\ UNCHANGED <<disk, made, cross>>
  /\ UNCHANGED <<jobVideo, progress, stages, clipIdx>>

\* downloadVideo: ffmpeg from the media file to the audio file
JobExtractAudio(j) ==
  /\ jobPc[j] = "audio"
  /\ UNCHANGED notJobs
  /\ \E ok \in BOOLEAN :
       IF ok /\ Exists(VideoPath(j))
       THEN Touch(j, {VideoPath(j)}, {AudioPath(j)}, {}) /\ Goto(j, "subs")
       ELSE Respond(j, 500, "extracted") /\ UNCHANGED <<disk, made, cross>>
  /\ UNCHANGED <<jobVideo, progress, stages, clipIdx>>

\* downloadSubtitles, and the route's answer when it found captions
JobDownloadSubtitles(j) ==
  /\ jobPc[j] = "subs"
  /\ UNCHANGED notJobs
  /\ \E wrote \in BOOLEAN :
       LET found == wrote \/ Exists(SubFile(j))
       IN /\ Touch(j, IF wrote THEN {} ELSE {SubFile(j)},
                      IF wrote THEN {SubFile(j)} ELSE {}, {})
          /\ \E parsed \in BOOLEAN :
               IF found /\ parsed
               THEN Respond(j, 200, "extracted") /\ Started(j, "captions")
               ELSE Goto(j, "whisper") /\ UNCHANGED stages
  /\ UNCHANGED <<jobVideo, progress, clipIdx>>

\* the route's Whisper branch and its answer
JobTranscribe(j) ==
  /\ jobPc[j] = "whisper"
  /\ UNCHANGED notJobs
  /\ \E ok \in BOOLEAN :
       IF ok /\ Exists(AudioPath(j))
       THEN /\ Touch(j, {AudioPath(j)}, {}, {})
            /\ Respond(j, 200, "extracted") /\ Started(j, "captions")
       ELSE /\ Respond(j, 500, "extracted")
            /\ UNCHANGED <<disk, made, cross, stages>>
  /\ UNCHANGED <<jobVideo, progress, clipIdx>>

\* if (!res.ok) throw ..., as it would read with the test left out
ResponseOkAlways(r) == TRUE

\* res.ok
ResponseOk(r) == r.status = 200

\* handleSubmit after a fetch: the catch, or the next stage
Resume(j, at, next, status, stage) ==
  /\ jobPc[j] = at
  /\ UNCHANGED notJobs
  /\ IF ResponseOk(res[j])
     THEN /\ progress' = [progress EXCEPT ![j] = status]
          /\ Started(j, stage)
          /\ Goto(j, next)
     ELSE /\ progress' = [progress EXCEPT ![j] = "error"]
          /\ Started(j, "failed")
          /\ Goto(j, "end")
  /\ UNCHANGED <<jobVideo, clipIdx, disk, made, cross>>

Extracted(j) == Resume(j, "extracted", "analyze", "analyzing", "analyze")
Analyzed(j) == Resume(j, "analyzed", "access", "generating", "generate")
Generated(j) == Resume(j, "generated", "end", "done", "complete")

\* analyze route
JobAnalyze(j) ==
  /\ jobPc[j] = "analyze"
  /\ UNCHANGED notJobs
  /\ \E key \in BOOLEAN : Respond(j, IF key THEN 200 ELSE 500, "analyzed")
  /\ UNCHANGED <<jobVideo, progress, stages, clipIdx, disk, made, cross>>

\* a step of the generate route that may throw: 500 from the route's catch
Throws(j) == Respond(j, 500, "generated") /\ UNCHANGED <<disk, made, cross>>

\* generate route: fs.mkdir(outputDir, { recursive: true }), which throws when
\* the directory cannot be made, then fs.access(videoPath)
GenAccess(j) ==
  /\ jobPc[j] = "access"
  /\ UNCHANGED notJobs
  /\ \E mkdir \in BOOLEAN :
       IF ~mkdir
       THEN Throws(j)
       ELSE IF Exists(VideoPath(j))
       THEN Touch(j, {VideoPath(j)}, {}, {}) /\ Goto(j, "narration")
       ELSE Respond(j, 400, "generated") /\ UNCHANGED <<disk, made, cross>>
  /\ UNCHANGED <<jobVideo, progress, stages, clipIdx>>

\* generateNarration
GenNarration(j) ==
  /\ jobPc[j] = "narration"
  /\ UNCHANGED notJobs
  /\ \E ok \in BOOLEAN :
       IF ok THEN Touch(j, {}, {NarrationPath(j)}, {}) /\ Goto(j, "clip")
       ELSE Throws(j)
  /\ UNCHANGED <<jobVideo, progress, stages, clipIdx>>

\* generateShort: one turn of the clip loop
GenClip(j) ==
  /\ jobPc[j] = "clip" /\ clipIdx[j] < MaxClips
  /\ UNCHANGED notJobs
  /\ \E ok \in BOOLEAN :
       IF ok /\ Exists(VideoPath(j))
       THEN /\ Touch(j, {VideoPath(j)}, {ClipPath(j, clipIdx[j])}, {})
            /\ clipIdx' = [clipIdx EXCEPT ![j] = @ + 1]
            /\ Goto(j, "clip")
       ELSE Throws(j) /\ UNCHANGED clipIdx
  /\ UNCHANGED <<jobVideo, progress, stages>>

ClipPaths(j) == {ClipPath(j, i) : i \in 0..(clipIdx[j] - 1)}

\* generateShort: fs.writeFile(concatFile, ...)
GenConcatFile(j) ==
  /\ jobPc[j] = "clip" /\ clipIdx[j] = MaxClips
  /\ UNCHANGED notJobs
  /\ Touch(j, {}, {ConcatFile(j)}, {})
  /\ Goto(j, "concat")
  /\ UNCHANGED <<jobVideo, progress, stages, clipIdx>>

\* an ffmpeg run of generateShort: throws when an input is missing
Ffmpeg(j, at, inputs, output, next) ==
  /\ jobPc[j] = at
  /\ UNCHANGED notJobs
  /\ \E ok \in BOOLEAN :
       IF ok /\ \A p \in inputs : Exists(p)
       THEN Touch(j, inputs, {output}, {}) /\ Goto(j, next)
       ELSE Throws(j)
  /\ UNCHANGED <<jobVideo, progress, stages, clipIdx>>

GenConcat(j) ==
  Ffmpeg(j, "concat", {ConcatFile(j)} \cup ClipPaths(j),
         ConcatenatedPath(j), "adjust")

\* the setpts run or the copy
GenAdjust(j) ==
  Ffmpeg(j, "adjust", {ConcatenatedPath(j)}, AdjustedPath(j), "mux")

GenMux(j) ==
  Ffmpeg(j, "mux", {AdjustedPath(j), NarrationPath(j)}, ShortPath(j), "cap")

\* if (finalDuration > 61): the trim, or straight on to the cleanup
GenCap(j) ==
  \/ Ffmpeg(j, "cap", {ShortPath(j)}, TrimmedPath(j), "unlinkShort")
  \/ /\ UNCHANGED notJobs
     /\ jobPc[j] = "cap"
     /\ Goto(j, "cleanup")
     /\ UNCHANGED <<jobVideo, progress, stages, clipIdx, disk, made, cross>>

\* fs.unlink(finalPath) after the trim
GenUnlinkShort(j) ==
  /\ jobPc[j] = "unlinkShort"
  /\ UNCHANGED notJobs
  /\ IF Exists(ShortPath(j))
     THEN Touch(j, {}, {}, {ShortPath(j)}) /\ Goto(j, "rename")
     ELSE Throws(j)
  /\ UNCHANGED <<jobVideo, progress, stages, clipIdx>>

\* fs.rename(trimmedPath, finalPath)
GenRename(j) ==
  /\ jobPc[j] = "rename"
  /\ UNCHANGED notJobs
  /\ IF Exists(TrimmedPath(j))
     THEN Touch(j, {}, {ShortPath(j)}, {TrimmedPath(j)}) /\ Goto(j, "cleanup")
     ELSE Throws(j)
  /\ UNCHANGED <<jobVideo, progress, stages, clipIdx>>

\* cleanupIntermediateFiles(outputDir, clipPaths, [concatFile, ...])
cleanupIntermediateFiles(j) ==
  /\ jobPc[j] = "cleanup"
  /\ UNCHANGED notJobs
  /\ Touch(j, {}, {},
           ClipPaths(j)
             \cup {ConcatFile(j), ConcatenatedPath(j), AdjustedPath(j)})
  /\ Goto(j, "ass")
  /\ UNCHANGED <<jobVideo, progress, stages, clipIdx>>

\* addSubtitlesToVideo: fs.writeFile(assPath, assContent)
BurnWriteAss(j) ==
  /\ jobPc[j] = "ass"
  /\ UNCHANGED notJobs
  /\ Touch(j, {}, {AssPath(j)}, {})
  /\ Started(j, "burn-in")
  /\ Goto(j, "burn")
  /\ UNCHANGED <<jobVideo, progress, clipIdx>>

\* addSubtitlesToVideo: the ffmpeg run that writes output/<id>_final.mp4
Burn(j) ==
  Ffmpeg(j, "burn", {ShortPath(j), AssPath(j)}, FinalPath(j), "unlinkAss")

\* addSubtitlesToVideo: fs.unlink(assPath)
BurnUnlinkAss(j) ==
  /\ jobPc[j] = "unlinkAss"
  /\ UNCHANGED notJobs
  /\ IF Exists(AssPath(j))
     THEN Touch(j, {}, {}, {AssPath(j)}) /\ Goto(j, "tmpCleanup")
     ELSE Throws(j)
  /\ UNCHANGED <<jobVideo, progress, stages, clipIdx>>

\* the files the route's cleanup loop unlinks
Unlinked(j) ==
  {f.path : f \in {g \in disk : /\ g.path.dir = TmpDir(jobVideo[j])
                                /\ ~NameIncludes(g.path.name, "_final")}}

\* generate route: the cleanup of tmpDir and the answer
TmpCleanup(j) ==
  /\ jobPc[j] = "tmpCleanup"
  /\ UNCHANGED notJobs
  /\ Touch(j, {}, {}, Unlinked(j))
  /\ Respond(j, 200, "generated")
  /\ UNCHANGED <<jobVideo, progress, stages, clipIdx>>

Next ==
  \E j \in Jobs :
    \/ Submit(j)
    \/ JobDownloadVideo(j)
    \/ JobExtractAudio(j)
    \/ JobDownloadSubtitles(j)
    \/ JobTranscribe(j)
    \/ Extracted(j)
    \/ JobAnalyze(j)
    \/ Analyzed(j)
    \/ GenAccess(j)
    \/ GenNarration(j)
    \/ GenClip(j)
    \/ GenConcatFile(j)
    \/ GenConcat(j)
    \/ GenAdjust(j)
    \/ GenMux(j)
    \/ GenCap(j)
    \/ GenUnlinkShort(j)
    \/ GenRename(j)
    \/ cleanupIntermediateFiles(j)
    \/ BurnWriteAss(j)
    \/ Burn(j)
    \/ BurnUnlinkAss(j)
    \/ TmpCleanup(j)
    \/ Generated(j)

Spec == InitJobs /\ [][Next]_vars

\* ------------------------------------------------------------------------
\* Claims about the jobs
\* ------------------------------------------------------------------------
StageOrder ==
  <<"extract", "captions", "analyze", "generate", "burn-in", "complete">>

IsPrefix(s, t) == Len(s) <= Len(t) /\ \A i \in 1..Len(s) : s[i] = t[i]

Last(s) == s[Len(s)]
Front(s) == SubSeq(s, 1, Len(s) - 1)

C4_Order ==
  \A j \in Jobs :
    LET s == stages[j]
    IN /\ \/ IsPrefix(s, StageOrder)
          \/ /\ Len(s) >= 2 /\ Last(s) = "failed"
             /\ IsPrefix(Front(s), StageOrder)
             /\ Last(Front(s)) # "complete"
       /\ (progress[j] = "error") = (Len(s) >= 1 /\ Last(s) = "failed")
       /\ (progress[j] = "done") = (Len(s) >= 1 /\ Last(s) = "complete")

C4_Step ==
  \A j \in Jobs :
    /\ (stages'[j] # stages[j] /\ Last(stages'[j]) \in {"analyze", "generate", "complete"})
         => res[j].status = 200
    /\ (stages'[j] # stages[j] /\ Last(stages'[j]) = "failed")
         => res[j].status \in {400, 500}
    /\ progress[j] = "error"
         => /\ progress'[j] = "error" /\ stages'[j] = stages[j]
            /\ jobPc'[j] = jobPc[j] /\ made'[j] = made[j]

\* C4: a job starts its stages in the order extract, captions ready, analyze,
\* generate, burn-in, complete, each only after the one before it succeeded;
\* after a failure the job stays failed, starts no stage and never completes.
C4_StagesInOrder == []C4_Order /\ [][C4_Step]_vars

C4_Witness ==
  /\ progress[1] = "done" /\ stages[1] = StageOrder
  /\ progress[2] = "error"
  /\ stages[2] = <<"extract", "captions", "analyze", "generate", "failed">>

\* C5: whatever the interleaving of two jobs, for the same video too, no job
\* reads, overwrites or unlinks a file the other job wrote.
C5_NoSharedArtifacts == cross = {}

OwnDirectory(j) == \A k \in Jobs \ {j} : jobVideo[k] # jobVideo[j]

\* C6: when a job is complete nothing is left in its working directory and
\* its final output exists, whatever the video id; when a job has failed,
\* every file it wrote is still there.
C6_PurgedOnCompleteKeptOnFailure ==
  \A j \in Jobs :
    OwnDirectory(j) =>
      /\ progress[j] = "done" =>
           /\ \A f \in disk : f.path.dir # TmpDir(jobVideo[j])
           /\ Exists(FinalPath(j))
      /\ progress[j] = "error" => \A p \in made[j] : Exists(p)

\* ------------------------------------------------------------------------
\* One generate request by its durations: generateShort, addSubtitlesToVideo
\* and the route's cleanup.  Times are in hundredths of a second.
\* ------------------------------------------------------------------------
\* scenes of one request
MaxGenScenes == 3

\* a text is a sequence of words "w" and runs of white space "_"
RECURSIVE Words(_)
Words(n) == IF n = 0 THEN <<>>
            ELSE IF n = 1 THEN <<"w">>
            ELSE Words(n - 1) \o <<"_", "w">>

\* text.split(/\s+/).length: one more than the runs of white space
SplitLength(text) ==
  1 + Cardinality({i \in DOMAIN text :
                     text[i] = "_" /\ (i = 1 \/ text[i - 1] # "_")})

\* the words of a text, as a reader counts them
WordCount(text) == Cardinality({i \in DOMAIN text : text[i] = "w"})

\* Math.max(2, Math.min(8, ...)) with the upper bound left out
clipDurationUncapped(text) == Max(200, 44 * SplitLength(text))

\* Math.max(2, Math.min(8, (words / 150) * 60 * 1.1)), words = split length
clipDuration(text) == Max(200, Min(800, 44 * SplitLength(text)))

\* the script of the request, and generateNarration's result for it:
\* duration = (text.split(/\s+/).length / 150) * 60, an estimate
GenScript == Words(15)
estimatedDuration(text) == 40 * SplitLength(text)
TtsResult == [audioPath |-> "narration",
              duration |-> estimatedDuration(GenScript)]

\* a generateShort that takes the collaborator's estimate for the duration
EstimatedDuration(actual, ok) == TtsResult.duration

\* getMediaDuration: what ffprobe prints, 55 when it fails
FallbackDuration == 5500
getMediaDuration(actual, ok) == IF ok THEN actual ELSE FallbackDuration

\* if (finalDuration > 61), ffmpeg -t 61
MaxShort == 6100

GenTexts ==
  {Words(n) : n \in {1, 10, 15, 20}} \cup {Words(10) \o <<"_">>}

GenScenes ==
  SeqsUpTo({[narrationText |-> t] : t \in GenTexts}, MaxGenScenes)

\* lengths of the narration audio
NarrationLengths == {1600, 7000}

RECURSIVE SumOf(_)
SumOf(q) == IF Len(q) = 0 THEN 0 ELSE q[1] + SumOf(Tail(q))

InitGen ==
  /\ NoRequest /\ NoPlan /\ NoSync /\ NoJobs /\ NoCall
  /\ \E list \in GenScenes, n \in NarrationLengths :
       gen = [pc |-> "probeNarration",
              scenes |-> list,        \* the request's scenes
              tts |-> TtsResult,      \* what generateNarration returned
              narration |-> n,        \* length of the narration audio
              narrationDuration |-> 0,
              i |-> 0,                \* the clip loop's i
              clipPaths |-> <<>>,
              files |-> <<>>,         \* clip files written: name, scene, length
              concatFile |-> <<>>,    \* the lines of concat.txt
              concat |-> 0,           \* length of the concatenated track
              videoDuration |-> 0,
              adjusted |-> [how |-> "none", duration |-> 0],
              short |-> [duration |-> 0, audio |-> <<>>],
              muxed |-> 0,            \* length of the mux output as written
              finalDuration |-> 0,
              returned |-> 0,         \* length of the track generateShort returns
              ran |-> <<>>,           \* subprocesses run: name and exit
              unlinkFailed |-> {},    \* deletions that failed
              events |-> <<>>,        \* the Dialogue lines of the .ass file
              final |-> FALSE,        \* output/<id>_final.mp4 was written
              status |-> 0]

\* a subprocess has run
Ran(name, ok) == Append(gen.ran, [name |-> name, ok |-> ok])

\* the route's catch
GenThrow(name) ==
  gen' = [gen EXCEPT !.pc = "done", !.status = 500, !.ran = Ran(name, FALSE)]

\* const narrationDuration = await getMediaDuration(narrationPath)
ProbeNarration ==
  /\ gen.pc = "probeNarration"
  /\ UNCHANGED notGen
  /\ \E ok \in BOOLEAN :
       gen' = [gen EXCEPT !.pc = "clip",
                          !.narrationDuration = getMediaDuration(gen.narration, ok),
                          !.ran = Ran("ffprobe", ok)]

\* path.join(outputDir, `clip_${i}.mp4`) with i left out
clipNameFixed(i) == 0

\* path.join(outputDir, `clip_${i}.mp4`)
clipName(i) == i

\* a file written over whatever had its name
WriteFile(files, f) ==
  SelectSeq(files, LAMBDA g : g.name # f.name) \o <<f>>

\* one turn of the clip loop
ExtractClip ==
  /\ gen.pc = "clip" /\ gen.i < Len(gen.scenes)
  /\ UNCHANGED notGen
  /\ \E ok \in BOOLEAN :
       IF ok
       THEN gen' = [gen EXCEPT
              !.files = WriteFile(@, [name |-> clipName(gen.i), scene |-> gen.i,
                 duration |-> clipDuration(gen.scenes[gen.i + 1].narrationText)]),
              !.clipPaths = Append(@, clipName(gen.i)),
              !.i = @ + 1,
              !.ran = Ran("clip", TRUE)]
       ELSE GenThrow("clip")

\* fs.writeFile(concatFile, clipPaths.map(...).join("\n"))
WriteConcatFile ==
  /\ gen.pc = "clip" /\ gen.i = Len(gen.scenes)
  /\ UNCHANGED notGen
  /\ gen' = [gen EXCEPT !.pc = "concat", !.concatFile = gen.clipPaths]

\* the file a line of concat.txt names
FileNamed(files, name) == CHOOSE f \in {files[k] : k \in DOMAIN files} : f.name = name

\* ffmpeg -f concat: the listed files end to end; no input, no output
Concatenate ==
  /\ gen.pc = "concat"
  /\ UNCHANGED notGen
  /\ \E ok \in BOOLEAN :
       IF ok /\ Len(gen.concatFile) > 0
       THEN gen' = [gen EXCEPT
              !.pc = "probeVideo",
              !.concat = SumOf([k \in DOMAIN gen.concatFile |->
                                 FileNamed(gen.files, gen.concatFile[k]).duration]),
              !.ran = Ran("concat", TRUE)]
       ELSE GenThrow("concat")

\* const videoDuration = await getMediaDuration(concatenatedPath)
ProbeVideo ==
  /\ gen.pc = "probeVideo"
  /\ UNCHANGED notGen
  /\ \E ok \in BOOLEAN :
       gen' = [gen EXCEPT !.pc = "adjust",
                          !.videoDuration = getMediaDuration(gen.concat, ok),
                          !.ran = Ran("ffprobe", ok)]

\* the setpts run, or the copy
Adjust ==
  /\ gen.pc = "adjust"
  /\ UNCHANGED notGen
  /\ LET sf == speedFactor(gen.videoDuration, gen.narrationDuration)
     IN IF NeedsRescale(sf)
        THEN \E ok \in BOOLEAN :
               IF ok
               THEN gen' = [gen EXCEPT
                      !.pc = "mux",
                      !.adjusted = [how |-> "setpts",
                         duration |-> Rescaled(gen.concat, SetptsFactor(sf))],
                      !.ran = Ran("setpts", TRUE)]
               ELSE GenThrow("setpts")
        ELSE gen' = [gen EXCEPT
               !.pc = "mux",
               !.adjusted = [how |-> "copy", duration |-> gen.concat]]

\* the mux without -shortest
Longest(video, audio) == Max(video, audio)

\* -shortest
Shortest(video, audio) == Min(video, audio)

\* ffmpeg -i adjusted -i narration -map 0:v:0 -map 1:a:0 -shortest
Mux ==
  /\ gen.pc = "mux"
  /\ UNCHANGED notGen
  /\ \E ok \in BOOLEAN :
       IF ok
       THEN LET d == Shortest(gen.adjusted.duration, gen.narration)
            IN gen' = [gen EXCEPT
                 !.pc = "probeShort",
                 !.short = [duration |-> d, audio |-> <<"narration">>],
                 !.muxed = d,
                 !.ran = Ran("mux", TRUE)]
       ELSE GenThrow("mux")

\* const finalDuration = await getMediaDuration(finalPath)
ProbeShort ==
  /\ gen.pc = "probeShort"
  /\ UNCHANGED notGen
  /\ \E ok \in BOOLEAN :
       gen' = [gen EXCEPT !.pc = "cap",
                          !.finalDuration = getMediaDuration(gen.short.duration, ok),
                          !.ran = Ran("ffprobe", ok)]

\* if (finalDuration > 61): ffmpeg -t 61 into trimmedPath
Trim ==
  /\ gen.pc = "cap" /\ gen.finalDuration > MaxShort
  /\ UNCHANGED notGen
  /\ \E ok \in BOOLEAN :
       IF ok
       THEN gen' = [gen EXCEPT !.pc = "unlinkShort", !.ran = Ran("trim", TRUE)]
       ELSE GenThrow("trim")

\* the else of if (finalDuration > 61)
SkipTrim ==
  /\ gen.pc = "cap" /\ gen.finalDuration <= MaxShort
  /\ UNCHANGED notGen
  /\ gen' = [gen EXCEPT !.pc = "cleanup"]

\* an fs call outside any try: the route's catch
UnlinkThrows(file) ==
  gen' = [gen EXCEPT !.pc = "done", !.status = 500,
                     !.unlinkFailed = @ \cup {file}]

\* await fs.unlink(finalPath); await fs.rename(trimmedPath, finalPath)
ReplaceShort ==
  /\ gen.pc = "unlinkShort"
  /\ UNCHANGED notGen
  /\ \E ok \in BOOLEAN :
       IF ok
       THEN gen' = [gen EXCEPT !.pc = "cleanup",
                               !.short.duration = Min(@, MaxShort)]
       ELSE UnlinkThrows("short")

\* the deletions of one cleanup that fail: none, or one
SomeFail(files) == {{}} \cup {{f} : f \in {CHOOSE g \in files : TRUE}}

\* cleanupIntermediateFiles, and return finalPath
CleanupIntermediate ==
  /\ gen.pc = "cleanup"
  /\ UNCHANGED notGen
  /\ \E failed \in SomeFail({"clip", "concat.txt", "concat", "adjusted"}) :
       gen' = [gen EXCEPT !.pc = "ass",
                          !.unlinkFailed = @ \cup failed,
                          !.returned = gen.short.duration]

\* formatASSTime: h:mm:ss.cc of a time in hundredths of a second
formatASSTime(t) ==
  <<t \div 360000, (t % 360000) \div 6000, (t % 6000) \div 100, t % 100>>

\* Math.max(2, (words / 150) * 60), words = split length
eventDuration(text) == Max(200, 40 * SplitLength(text))

\* the loop with currentTime += duration left out
StayAt(currentTime, duration) == currentTime

\* currentTime += duration
Advance(currentTime, duration) == currentTime + duration

\* the loop of generateASSSubtitles from scene k on
RECURSIVE EventsFrom(_, _, _)
EventsFrom(list, k, currentTime) ==
  IF k > Len(list) THEN <<>>
  ELSE LET duration == eventDuration(list[k].narrationText)
       IN <<[start |-> formatASSTime(currentTime),
             end |-> formatASSTime(currentTime + duration),
             scene |-> k - 1]>>
          \o EventsFrom(list, k + 1, Advance(currentTime, duration))

generateASSSubtitles(list) == EventsFrom(list, 1, 0)

\* addSubtitlesToVideo: fs.writeFile(assPath, generateASSSubtitles(scenes))
WriteAss ==
  /\ gen.pc = "ass"
  /\ UNCHANGED notGen
  /\ gen' = [gen EXCEPT !.pc = "burn",
                        !.events = generateASSSubtitles(gen.scenes)]

\* addSubtitlesToVideo: the ffmpeg run that burns the .ass file in
BurnIn ==
  /\ gen.pc = "burn"
  /\ UNCHANGED notGen
  /\ \E ok \in BOOLEAN :
       IF ok
       THEN gen' = [gen EXCEPT !.pc = "unlinkAss", !.final = TRUE,
                               !.ran = Ran("burn", TRUE)]
       ELSE GenThrow("burn")

\* await fs.unlink(assPath)
UnlinkAss ==
  /\ gen.pc = "unlinkAss"
  /\ UNCHANGED notGen
  /\ \E ok \in BOOLEAN :
       IF ok THEN gen' = [gen EXCEPT !.pc = "tmpCleanup"]
       ELSE UnlinkThrows("ass")

\* the route's cleanup loop and its answer
GenRespond ==
  /\ gen.pc = "tmpCleanup"
  /\ UNCHANGED notGen
  /\ \E failed \in SomeFail({"video", "audio", "narration", "short"}) :
       gen' = [gen EXCEPT !.pc = "done", !.status = 200,
                          !.unlinkFailed = @ \cup failed]

NextGen ==
  \/ ProbeNarration \/ ExtractClip \/ WriteConcatFile \/ Concatenate
  \/ ProbeVideo \/ Adjust \/ Mux \/ ProbeShort \/ Trim \/ SkipTrim
  \/ ReplaceShort \/ CleanupIntermediate \/ WriteAss \/ BurnIn \/ UnlinkAss \/ GenRespond

SpecGen == InitGen /\ [][NextGen]_vars

\* ------------------------------------------------------------------------
\* Claims about one generate request
\* ------------------------------------------------------------------------
Returned == gen.pc \in {"ass", "burn", "unlinkAss", "tmpCleanup"} \/ (gen.pc = "done" /\ gen.returned > 0)

\* C11: after the cap a mux output longer than 61 s has been cut to exactly
\* 61 s and a shorter one is unchanged, so the track generateShort returns
\* never exceeds 61 s.
C11_CappedAt61 ==
  Returned =>
    /\ gen.returned = (IF gen.muxed > MaxShort THEN MaxShort ELSE gen.muxed)
    /\ gen.returned <= MaxShort

Muxed == gen.pc # "off" /\ gen.muxed > 0

\* C12: the mux output has the narration as its only audio stream and lasts
\* min(adjusted video, narration), after a setpts run and after a copy.
C12_ShortestStream ==
  Muxed =>
    /\ gen.short.audio = <<"narration">>
    /\ gen.adjusted.how \in {"setpts", "copy"}
    /\ gen.muxed <= gen.adjusted.duration /\ gen.muxed <= gen.narration
    /\ gen.muxed = gen.adjusted.duration \/ gen.muxed = gen.narration

C12_Witness ==
  /\ gen.pc = "probeShort"
  /\ gen.adjusted.how = "copy"
  /\ gen.narration < gen.adjusted.duration
  /\ gen.muxed = gen.narration

C12_WitnessRescaled ==
  /\ gen.pc = "probeShort"
  /\ gen.adjusted.how = "setpts"
  /\ gen.muxed = gen.narration /\ gen.muxed = gen.adjusted.duration

Clamp(x, lo, hi) == IF x < lo THEN lo ELSE IF x > hi THEN hi ELSE x

\* the narrations of 10, 20 and 15 words
TenWords == Words(10)
TwentyWords == Words(20)
FifteenWords == Words(15)

ListWritten == gen.pc \notin {"off", "probeNarration", "clip"} /\ gen.i = Len(gen.scenes)

\* C14: concat.txt has one line per scene, the i-th naming the clip cut from
\* the i-th scene, and the concatenated track lasts the sum of the clips.
C14_ConcatList ==
  ListWritten =>
    /\ Len(gen.concatFile) = Len(gen.scenes)
    /\ Len(gen.files) = Len(gen.scenes)
    /\ \A k \in DOMAIN gen.concatFile :
         /\ \E f \in DOMAIN gen.files : gen.files[f].name = gen.concatFile[k]
         /\ FileNamed(gen.files, gen.concatFile[k]).scene = k - 1
         /\ \A m \in DOMAIN gen.concatFile :
              gen.concatFile[m] = gen.concatFile[k] => m = k
    /\ gen.concat > 0 =>
         gen.concat = SumOf([k \in DOMAIN gen.scenes |->
                              clipDuration(gen.scenes[k].narrationText)])

C14_Witness ==
  /\ gen.pc = "probeVideo"
  /\ Len(gen.scenes) = 3
  /\ gen.concatFile = <<0, 1, 2>>
  /\ gen.scenes[1].narrationText # gen.scenes[2].narrationText
  /\ gen.concat = 200 + 440 + 800

\* C15: a subprocess of the assembly that exits with an error is the last
\* one the request runs, and the request answers with an error.
C15_SubprocessErrorIsFatal ==
  gen.pc # "off" =>
    \A k \in DOMAIN gen.ran :
      ~gen.ran[k].ok => /\ k = Len(gen.ran)
                        /\ gen.pc = "done" /\ gen.status = 500

\* C16: no failed deletion changes the outcome: a request whose final output
\* was written answers 200, and an error answer comes from a failed
\* subprocess alone.
C16_DeletionFailuresSwallowed ==
  gen.pc = "done" =>
    /\ gen.final => gen.status = 200
    /\ gen.status = 500 => Len(gen.ran) > 0 /\ ~gen.ran[Len(gen.ran)].ok

\* ------------------------------------------------------------------------
\* Claims about the scene validator
\* ------------------------------------------------------------------------
\* the repair as specified: the end is bounded from the repaired start
Repaired(scene, mx) ==
  LET start == Max(0, Min(scene.startTime, mx - 5))
  IN [startTime |-> start,
      endTime |-> Max(start + 2, Max(start, Min(scene.endTime, mx))),
      narrationText |-> scene.narrationText]

C19_Step ==
  (~validated /\ validated') =>
    scenes' = [i \in DOMAIN scenes |-> Repaired(scenes[i], maxTime(planSubtitles))]

\* C19: validateScenes returns startTime' = clamp(startTime, 0, max - 5) and
\* endTime' = max(startTime' + 2, clamp(endTime, startTime', max)), the lower
\* bound of endTime' taken from the repaired startTime'.
C19_RepairFromRepairedStart == [][C19_Step]_vars

\* ------------------------------------------------------------------------
\* analyzeAndCreateScript from the planner's reply on, and the generate
\* request that follows
\* ------------------------------------------------------------------------
\* the reply is a text of brackets, prose "p" and scene objects "s1", "s2"
SceneOf ==
  [s1 |-> [startTime |-> 4, endTime |-> 7, narrationText |-> "one two"],
   s2 |-> [startTime |-> 12, endTime |-> 299, narrationText |-> "three"]]

Replies ==
  { <<>>,                                        \* nothing
    <<"p">>,                                     \* prose, no array
    <<"[", "s1">>,                               \* cut before the bracket closes
    <<"[", "p", "]">>,                           \* brackets around no JSON
    <<"[", "]">>,
    <<"[", "s1", "s2", "]">>,
    <<"p", "[", "s1", "]", "p">>,                \* an array inside a code fence
    <<"[", "s1", "]", "p", "[", "s2", "]">> }    \* two arrays with prose between

NoMatch == <<>>

\* content?.trim() || "[]"
scenesText(reply) == IF Len(reply) = 0 THEN <<"[", "]">> ELSE reply

\* text.match(/\[[\s\S]*\]/): from the first "[" to the last "]"
MatchArray(text) ==
  LET opens == {i \in DOMAIN text : text[i] = "["}
      closes == {i \in DOMAIN text : text[i] = "]"}
  IN IF opens = {} THEN NoMatch
     ELSE LET a == CHOOSE i \in opens : \A k \in opens : i <= k
              after == {i \in closes : i > a}
          IN IF after = {} THEN NoMatch
             ELSE SubSeq(text, a, CHOOSE i \in after : \A k \in after : k <= i)

Inner(m) == SubSeq(m, 2, Len(m) - 1)

\* JSON.parse accepts the text
IsJson(m) == \A i \in DOMAIN Inner(m) : Inner(m)[i] \in DOMAIN SceneOf

\* JSON.parse(jsonMatch[0])
ParseJson(m) == [i \in DOMAIN Inner(m) |-> SceneOf[Inner(m)[i]]]

\* the script is its pieces between runs of . ! ?
Scripts ==
  { <<"">>,
    <<"A", "">>,
    <<"A", " B", " C", " D", " E", "">> }

Blank(piece) == piece \in {"", " "}
Trimmed == [p \in {"A", " B", " C", " D", " E"} |->
              IF p = "A" THEN "A" ELSE IF p = " B" THEN "B" ELSE IF p = " C" THEN "C"
              ELSE IF p = " D" THEN "D" ELSE "E"]

\* script.split(/[.!?]+/).filter(s => s.trim())
Sentences(script) == SelectSeq(script, LAMBDA piece : ~Blank(piece))

\* subtitles[k]?.start || otherwise, k counted from 0
StartOr(subs, k, otherwise) ==
  IF k + 1 > Len(subs) \/ subs[k + 1].start = 0 THEN otherwise
  ELSE subs[k + 1].start

\* the loop of createFallbackScenes from one sentence on
RECURSIVE FallbackFrom(_, _, _, _)
FallbackFrom(sentences, currentTime, segmentDuration, subs) ==
  IF Len(sentences) = 0 THEN <<>>
  ELSE LET jumped == currentTime + Max(segmentDuration * 3, 15)
           next == IF jumped > maxTime(subs) - segmentDuration
                   THEN StartOr(subs, Len(subs) \div 2, 60)
                   ELSE jumped
       IN <<[startTime |-> currentTime,
             endTime |-> currentTime + segmentDuration,
             narrationText |-> Trimmed[Head(sentences)]]>>
          \o FallbackFrom(Tail(sentences), next, segmentDuration, subs)

\* createFallbackScenes; 55 / sentences.length is whole for the scripts above
createFallbackScenes(script, subs) ==
  LET sentences == Sentences(script)
  IN IF Len(sentences) = 0 THEN <<>>
     ELSE FallbackFrom(sentences, StartOr(subs, 0, 0),
                       55 \div Len(sentences), subs)

\* catch (error) { scenes = createFallbackScenes(script, subtitles) }
OnParseError(script, subs) == createFallbackScenes(script, subs)

InitPlan ==
  /\ NoRequest /\ NoSync /\ NoJobs /\ NoGen /\ NoCall
  /\ scenes = <<>> /\ planSubtitles = <<>> /\ validated = FALSE
  /\ \E reply \in Replies, script \in Scripts, subs \in SubtitlesIn :
       plan = [pc |-> "parse",
               reply |-> reply,      \* scenesResponse's content
               script |-> script,
               subtitles |-> subs,
               raw |-> <<>>,         \* scenes before validateScenes
               scenes |-> <<>>,      \* let scenes = []
               threw |-> FALSE,      \* an error reached the caller
               body |-> <<>>,        \* scenes of the generate request
               clipped |-> <<>>]     \* scenes generateShort cut clips from

\* the try/catch around match and JSON.parse
ParseReply ==
  /\ UNCHANGED notScenes /\ UNCHANGED <<scenes, planSubtitles, validated>>
  /\ plan.pc = "parse"
  /\ LET m == MatchArray(scenesText(plan.reply))
         parsed == IF m = NoMatch THEN plan.scenes
                   ELSE IF IsJson(m) THEN ParseJson(m)
                   ELSE OnParseError(plan.script, plan.subtitles)
     IN plan' = [plan EXCEPT !.pc = "validate", !.raw = parsed, !.scenes = parsed]

\* scenes = validateScenes(scenes, subtitles); return { script, scenes }
ValidatePlan ==
  /\ UNCHANGED notScenes /\ UNCHANGED <<scenes, planSubtitles, validated>>
  /\ plan.pc = "validate"
  /\ plan' = [plan EXCEPT !.pc = "returned",
                          !.scenes = validateScenes(plan.scenes, plan.subtitles)]

\* scene lists a client other than the page may post
OtherBodies ==
  { <<[startTime |-> -3, endTime |-> 304, narrationText |-> "one two"]>>,
    <<[startTime |-> 299, endTime |-> 0, narrationText |-> "one two"],
      [startTime |-> 4, endTime |-> 7, narrationText |-> "three"]>> }

\* generate route: const { videoId, script, scenes } = await request.json(),
\* posted by handleSubmit with analyzeData.scenes or by any other client
PostGenerate ==
  /\ UNCHANGED notScenes /\ UNCHANGED <<scenes, planSubtitles, validated>>
  /\ plan.pc = "returned"
  /\ \E body \in {plan.scenes} \cup OtherBodies :
       plan' = [plan EXCEPT !.pc = "generate", !.body = body]

\* generate route: generateShort({ ..., scenes: scenes as Scene[] })
GenerateClips ==
  /\ UNCHANGED notScenes /\ UNCHANGED <<scenes, planSubtitles, validated>>
  /\ plan.pc = "generate"
  /\ plan' = [plan EXCEPT !.pc = "done", !.clipped = plan.body]

NextPlan == ParseReply \/ ValidatePlan \/ PostGenerate \/ GenerateClips

SpecPlan == InitPlan /\ [][NextPlan]_vars

\* ------------------------------------------------------------------------
\* Claims about the plan
\* ------------------------------------------------------------------------
PlanReturned == plan.pc \in {"returned", "generate", "done"}

Absent(reply) == MatchArray(reply) = NoMatch
Unparseable(reply) == MatchArray(reply) # NoMatch /\ ~IsJson(MatchArray(reply))

\* C17: when the planner's reply holds no JSON array or one that does not
\* parse, analyzeAndCreateScript returns the fallback plan made from the
\* script, and no error reaches the caller.
C17_FallbackOnBadReply ==
  (PlanReturned /\ (Absent(plan.reply) \/ Unparseable(plan.reply))) =>
    /\ plan.scenes = validateScenes(
                       createFallbackScenes(plan.script, plan.subtitles),
                       plan.subtitles)
    /\ ~plan.threw

\* C18: the plan analyzeAndCreateScript returns is what validateScenes gave,
\* and the scenes generateShort cuts clips from are such a plan.
C18_AlwaysValidated ==
  /\ PlanReturned => plan.scenes = validateScenes(plan.raw, plan.subtitles)
  /\ plan.pc = "done" => plan.clipped = plan.scenes

\* ------------------------------------------------------------------------
\* Claims about the caption track
\* ------------------------------------------------------------------------
\* h:mm:ss.cc read back as hundredths of a second
Hundredths(t) == ((t[1] * 60 + t[2]) * 60 + t[3]) * 100 + t[4]

\* the caption track was written: generateShort returned and WriteAss ran
AssWritten == gen.returned > 0 /\ gen.pc \notin {"off", "ass"}

WrapWidth == 40

\* the lengths of the sample texts, and where their spaces may be
TextLengths == {39, 40, 41, 42, 43, 84}
SpacePositions == {1, 20, 38, 39, 40, 41, 42, 43, 60, 80, 81, 82, 83, 84}
MaxSpaces == 2

Text(len, spaces) == [i \in 1..len |-> IF i \in spaces THEN "_" ELSE "c"]

Texts ==
  {Text(len, sp) : len \in TextLengths,
                   sp \in {x \in SUBSET SpacePositions : Cardinality(x) <= MaxSpaces}}

\* \s after .{40,}? tried from position p: the lazy quantifier stops at the
\* first space with WrapWidth characters or more between p and it
SpacesAfter(text, p) == {j \in DOMAIN text : j >= p + WrapWidth /\ text[j] = "_"}

\* the space the match starting at p ends with, 0 when there is no match
MatchEnd(text, p) ==
  IF SpacesAfter(text, p) = {} THEN 0
  ELSE CHOOSE j \in SpacesAfter(text, p) : \A k \in SpacesAfter(text, p) : j <= k

\* replace with the g flag: the next match is looked for after the last one
RECURSIVE ReplaceFrom(_, _)
ReplaceFrom(text, p) ==
  LET j == MatchEnd(text, p)
  IN IF j = 0 THEN SubSeq(text, p, Len(text))
     ELSE SubSeq(text, p, j - 1) \o <<"N">> \o ReplaceFrom(text, j + 1)

wrapText(text) == ReplaceFrom(text, 1)

InitWrap ==
  /\ NoRequest /\ NoPlan /\ NoSync /\ NoJobs /\ NoGen
  /\ \E t \in Texts : call = [pc |-> "wrap", text |-> t, out |-> <<>>]

WrapCaption ==
  /\ call.pc = "wrap"
  /\ UNCHANGED notCall
  /\ call' = [call EXCEPT !.pc = "wrapped", !.out = wrapText(call.text)]

NextWrap == WrapCaption

SpecWrap == InitWrap /\ [][NextWrap]_vars

\* the positions where a space was replaced by a line break
Breaks == {i \in DOMAIN call.out : call.out[i] = "N"}

\* C21: a 42-character text receives exactly one break, at its first space
\* at or after character 40; a text longer than 40 characters is broken at
\* the next space following its 40th character; a text of at most 40
\* characters receives no break.
C21_WrapAt40 ==
  call.pc = "wrapped" =>
    LET text == call.text
        from40 == {j \in DOMAIN text : j >= WrapWidth /\ text[j] = "_"}
        after40 == {j \in DOMAIN text : j > WrapWidth /\ text[j] = "_"}
    IN /\ Len(text) = 42 =>
            /\ Cardinality(Breaks) = 1
            /\ \A b \in Breaks : b \in from40 /\ \A j \in from40 : b <= j
       /\ Len(text) > WrapWidth =>
            \E b \in Breaks : b \in after40 /\ \A j \in after40 : b <= j
       /\ Len(text) <= WrapWidth => Breaks = {}

\* ------------------------------------------------------------------------
\* parseSRT on caption documents of its own (lib/youtube.ts)
\* ------------------------------------------------------------------------
MaxDocBlocks == 3

\* the sample blocks, a block whose range runs backwards, one whose range is
\* empty and one of a single line
DocBlocks ==
  SampleBlocks \cup
  { [lines |-> 3, arrow |-> TRUE, start |-> Num(4), end |-> Num(2), text |-> "back"],
    [lines |-> 3, arrow |-> TRUE, start |-> Num(4), end |-> Num(4), text |-> "flash"],
    [lines |-> 1, arrow |-> TRUE, start |-> Num(0), end |-> Num(2), text |-> ""] }

Docs == SeqsUpTo(DocBlocks, MaxDocBlocks)

InitSrt ==
  /\ NoRequest /\ NoPlan /\ NoSync /\ NoJobs /\ NoGen
  /\ \E doc \in Docs : call = [pc |-> "srt", content |-> doc, out |-> <<>>]

ParseCaptions ==
  /\ call.pc = "srt"
  /\ UNCHANGED notCall
  /\ call' = [call EXCEPT !.pc = "parsed", !.out = parseSRT(call.content)]

NextSrt == ParseCaptions

SpecSrt == InitSrt /\ [][NextSrt]_vars

\* the blocks the claim says contribute an entry, in document order
RECURSIVE WellFormed(_)
WellFormed(content) ==
  IF content = <<>> THEN <<>>
  ELSE LET b == Head(content)
       IN (IF b.arrow /\ b.start # NaN /\ b.end # NaN /\ StripMarkup(b.text) # ""
             THEN <<b>> ELSE <<>>) \o WellFormed(Tail(content))

\* one entry for each such block, in order
C24_OneEntryPerBlock ==
  call.pc = "parsed" =>
    LET kept == WellFormed(call.content)
    IN /\ Len(call.out) = Len(kept)
       /\ \A i \in DOMAIN kept :
            /\ call.out[i].start = kept[i].start[1]
            /\ call.out[i].end = kept[i].end[1]
            /\ call.out[i].text = StripMarkup(kept[i].text)
            /\ call.out[i].text # ""

\* C24: parseSRT returns for every document; a block with no range line, an
\* unparseable start or end, or no text after stripping contributes nothing,
\* every other block one entry, in document order, and every emitted
\* subtitle has a numeric start and end with start < end and a text.
C24_ParseSrtTotal ==
  /\ C24_OneEntryPerBlock
  /\ call.pc = "parsed" =>
       \A i \in DOMAIN call.out :
         call.out[i].start < call.out[i].end /\ call.out[i].text # ""

\* ------------------------------------------------------------------------
\* parseTimestamp (lib/youtube.ts).  A timestamp text is a sequence of
\* tokens: a run of digits with its value, or one of ":", "," and ".".  The
\* digits after the decimal mark are the three of the milliseconds, and
\* numbers are in milliseconds.
\* ------------------------------------------------------------------------
Digits(v) == [k |-> "n", v |-> v]
Mark(c) == [k |-> c, v |-> 0]

\* the instants of the sample, and the forms they are written in
Instants ==
  [h : {0, 1, 12}, m : {0, 5, 59}, s : {0, 7, 59}, ms : {0, 5, 500, 999}]
Forms == {"srt", "vtt", "short", "short0"}

Written(form, i) ==
  IF form = "srt"
    THEN <<Digits(i.h), Mark(":"), Digits(i.m), Mark(":"), Digits(i.s),
           Mark(","), Digits(i.ms)>>
  ELSE IF form = "vtt"
    THEN <<Digits(i.h), Mark(":"), Digits(i.m), Mark(":"), Digits(i.s),
           Mark("."), Digits(i.ms)>>
  ELSE IF form = "short"
    THEN <<Digits(i.m), Mark(":"), Digits(i.s), Mark("."), Digits(i.ms)>>
  ELSE <<Digits(0), Mark(":"), Digits(i.m), Mark(":"), Digits(i.s),
         Mark("."), Digits(i.ms)>>

\* a parser that leaves the comma where it is
Uncleaned(ts) == ts

\* ts.replace(",", "."): the first comma only
Cleaned(ts) ==
  LET commas == {j \in DOMAIN ts : ts[j].k = ","}
  IN IF commas = {} THEN ts
     ELSE LET first == CHOOSE j \in commas : \A c \in commas : j <= c
          IN [ts EXCEPT ![first] = Mark(".")]

\* cleaned.split(":")
RECURSIVE SplitColon(_, _)
SplitColon(ts, part) ==
  IF ts = <<>> THEN <<part>>
  ELSE IF Head(ts).k = ":" THEN <<part>> \o SplitColon(Tail(ts), <<>>)
  ELSE SplitColon(Tail(ts), Append(part, Head(ts)))

\* parseFloat: the longest numeric prefix, NaN when there is none
parseFloat(part) ==
  IF part = <<>> \/ part[1].k # "n" THEN NaN
  ELSE IF Len(part) >= 3 /\ part[2].k = "." /\ part[3].k = "n"
    THEN Num(part[1].v * 1000 + part[3].v)
  ELSE Num(part[1].v * 1000)

\* a * n and a + b of numbers that may be NaN
Times(a, n) == IF a = NaN THEN NaN ELSE Num(a[1] * n)
Plus(a, b) == IF a = NaN \/ b = NaN THEN NaN ELSE Num(a[1] + b[1])

parseTimestamp(ts) ==
  LET cleaned == Cleaned(ts)
      parts == SplitColon(cleaned, <<>>)
  IN IF Len(parts) = 3
       THEN Plus(Plus(Times(parseFloat(parts[1]), 3600),
                      Times(parseFloat(parts[2]), 60)),
                 parseFloat(parts[3]))
     ELSE IF Len(parts) = 2
       THEN Plus(Times(parseFloat(parts[1]), 60), parseFloat(parts[2]))
     ELSE parseFloat(cleaned)

InitTimestamp ==
  /\ NoRequest /\ NoPlan /\ NoSync /\ NoJobs /\ NoGen
  /\ \E i \in Instants, form \in Forms :
       /\ form \in {"short", "short0"} => i.h = 0
       /\ call = [pc |-> "timestamp", instant |-> i, form |-> form,
                  ts |-> Written(form, i), value |-> NaN]

ParseStamp ==
  /\ call.pc = "timestamp"
  /\ UNCHANGED notCall
  /\ call' = [call EXCEPT !.pc = "stamped", !.value = parseTimestamp(call.ts)]

NextTimestamp == ParseStamp

SpecTimestamp == InitTimestamp /\ [][NextTimestamp]_vars

\* C25: an instant parses to the same number of seconds from its
\* HH:MM:SS,mmm form and from its HH:MM:SS.mmm form, and below one hour from
\* MM:SS.fff and from 0:MM:SS.fff: hours * 3600 + minutes * 60 + seconds.
C25_SameInstantSameSeconds ==
  call.pc = "stamped" =>
    LET i == call.instant
    IN /\ call.value = Num(i.h * 3600000 + i.m * 60000 + i.s * 1000 + i.ms)
       /\ parseTimestamp(Written("srt", i)) = parseTimestamp(Written("vtt", i))
       /\ i.h = 0 => parseTimestamp(Written("short", i))
                       = parseTimestamp(Written("short0", i))

C25_Witness ==
  /\ call.pc = "stamped" /\ call.form = "srt"
  /\ call.instant = [h |-> 1, m |-> 5, s |-> 7, ms |-> 500]
  /\ call.value = Num(3907500)

\* ------------------------------------------------------------------------
\* The options of one yt-dlp invocation, in the two copies of lib/youtube.ts:
\* "youtube.ts" is src/lib/youtube.ts, "part_003" the copy with
\* getCookiesPath
\* ------------------------------------------------------------------------
Libs == {"youtube.ts", "part_003"}
Ops == {"info", "download", "subs"}

\* getYtDlpOpts of copy lib, found: a cookies.txt is there
YtDlpOptsIn(lib, found) ==
  IF lib = "youtube.ts"
    THEN [client |-> "ios,web", cookies |-> found]
  ELSE [client |-> IF found THEN "web" ELSE "ios,web", cookies |-> found]

\* the options of the call of chain op on candidate k
InvocationOpts(lib, found, op, k) ==
  IF k = Primary THEN YtDlpOptsIn(lib, found) ELSE MirrorOpts

InitOpts ==
  /\ NoRequest /\ NoPlan /\ NoSync /\ NoJobs /\ NoGen
  /\ \E lib \in Libs, found \in BOOLEAN, op \in Ops, k \in {Primary} \cup Mirrors :
       call = [pc |-> "opts", lib |-> lib, found |-> found, op |-> op,
               cand |-> k, opts |-> MirrorOpts]

Invoke ==
  /\ call.pc = "opts"
  /\ UNCHANGED notCall
  /\ call' = [call EXCEPT !.pc = "invoked",
                !.opts = InvocationOpts(call.lib, call.found, call.op, call.cand)]

NextOpts == Invoke

SpecOpts == InitOpts /\ [][NextOpts]_vars

\* C26: with a cookies file found every call on YouTube itself uses the
\* client profile 'web' with the credentials; with none found it uses
\* 'ios,web' without credentials; a call on a mirror never gets credentials.
C26_ClientProfile ==
  call.pc = "invoked" =>
    /\ call.cand = Primary /\ call.found =>
         call.opts = [client |-> "web", cookies |-> TRUE]
    /\ call.cand = Primary /\ ~call.found =>
         call.opts = [client |-> "ios,web", cookies |-> FALSE]
    /\ call.cand # Primary => ~call.opts.cookies

\* ------------------------------------------------------------------------
\* The classification of lastError in the two copies of downloadVideo
\* ------------------------------------------------------------------------
\* a classifier that looks for the age phrase first
ClassifyAgeFirst(lib, text) ==
  IF includes(text, "Sign in to confirm your age") THEN "AgeRestricted"
  ELSE ClassifyError(text)

\* the chain of ifs after "if (!info)"
ClassifyErrorIn(lib, text) ==
  IF lib = "part_003" THEN ClassifyError(text)
  ELSE IF \/ includes(text, "Sign in to confirm you're not a bot")
          \/ includes(text, "confirm you're not a bot")
    THEN "BotDetection"
  ELSE IF includes(text, "not made this video available in your country")
    THEN "RegionBlocked"
  ELSE IF includes(text, "Video unavailable") \/ includes(text, "Private video")
    THEN "Unavailable"
  ELSE IF includes(text, "Sign in to confirm your age")
    THEN "AgeRestricted"
  ELSE "Unknown"

InitClassify ==
  /\ NoRequest /\ NoPlan /\ NoSync /\ NoJobs /\ NoGen
  /\ \E lib \in Libs, text \in SUBSET Phrases :
       call = [pc |-> "classify", lib |-> lib, text |-> text, kind |-> ""]

Classify ==
  /\ call.pc = "classify"
  /\ UNCHANGED notCall
  /\ call' = [call EXCEPT !.pc = "classified",
                          !.kind = ClassifyErrorIn(call.lib, call.text)]

NextClassify == Classify

SpecClassify == InitClassify /\ [][NextClassify]_vars

\* the bot pattern and the region pattern of each copy
BotPattern(lib) ==
  IF lib = "part_003"
    THEN {"Sign in to confirm you're not a bot", "confirm you're not a bot", "bot"}
  ELSE {"Sign in to confirm you're not a bot", "confirm you're not a bot"}

RegionPattern(lib) ==
  IF lib = "part_003"
    THEN {"not made this video available in your country",
          "not available in your country"}
  ELSE {"not made this video available in your country"}

Matches(text, pattern) == \E needle \in pattern : includes(text, needle)

\* C27: every error text gets one kind: BotDetection if it matches the bot
\* pattern, otherwise RegionBlocked if it matches the region pattern,
\* otherwise Unavailable if it holds "Video unavailable" or "Private video",
\* otherwise AgeRestricted if it holds "Sign in to confirm your age",
\* otherwise Unknown; the empty text is Unknown.
C27_ClassificationPrecedence ==
  call.pc = "classified" =>
    LET text == call.text
        bot == Matches(text, BotPattern(call.lib))
        region == Matches(text, RegionPattern(call.lib))
        gone == Matches(text, {"Video unavailable", "Private video"})
        age == Matches(text, {"Sign in to confirm your age"})
    IN /\ call.kind \in ErrorKinds
       /\ call.kind = "BotDetection" <=> bot
       /\ call.kind = "RegionBlocked" <=> ~bot /\ region
       /\ call.kind = "Unavailable" <=> ~bot /\ ~region /\ gone
       /\ call.kind = "AgeRestricted" <=> ~bot /\ ~region /\ ~gone /\ age
       /\ call.kind = "Unknown" <=> ~bot /\ ~region /\ ~gone /\ ~age
       /\ text = {} => call.kind = "Unknown"

C27_Witness ==
  /\ call.pc = "classified" /\ call.kind = "RegionBlocked"
  /\ call.text = {"not made this video available in your country",
                  "Private video", "Sign in to confirm your age"}

\* ------------------------------------------------------------------------
\* createFallbackScenes on subtitle lists of its own (lib/ai.ts)
\* ------------------------------------------------------------------------
\* where the sample subtitles start; each lasts 8 s
SubStarts == {0, 2, 40, 100, 290}
MaxSubs == 3

SubAt(t) == [start |-> t, end |-> t + 8, text |-> "t"]

\* the subtitle lists: up to MaxSubs subtitles in the order of their starts
FallbackSubs ==
  {q \in SeqsUpTo({SubAt(t) : t \in SubStarts}, MaxSubs) :
     \A i \in 1..(Len(q) - 1) : q[i].start < q[i + 1].start}

InitFallback ==
  /\ NoRequest /\ NoPlan /\ NoSync /\ NoJobs /\ NoGen
  /\ \E script \in Scripts, subs \in FallbackSubs :
       call = [pc |-> "fallback", script |-> script, subtitles |-> subs,
               out |-> <<>>]

Fallback ==
  /\ call.pc = "fallback"
  /\ UNCHANGED notCall
  /\ call' = [call EXCEPT !.pc = "synthesized",
                !.out = createFallbackScenes(call.script, call.subtitles)]

NextFallback == Fallback

SpecFallback == InitFallback /\ [][NextFallback]_vars

\* the first, the middle and the last subtitle as the claim reads them, with
\* the code's defaults when there is no subtitle
FirstStart(subs) == IF Len(subs) = 0 THEN 0 ELSE subs[1].start
MiddleStart(subs) == IF Len(subs) = 0 THEN 60 ELSE subs[(Len(subs) \div 2) + 1].start
LastEnd(subs) == IF Len(subs) = 0 THEN 300 ELSE subs[Len(subs)].end

\* one scene per sentence, in order, each lasting its share of 55 s, the
\* first at the first subtitle's start
C28_Shares ==
  call.pc = "synthesized" =>
    LET sentences == Sentences(call.script)
        n == Len(sentences)
        out == call.out
    IN /\ Len(out) = n
       /\ \A k \in DOMAIN out :
            /\ out[k].narrationText = Trimmed[sentences[k]]
            /\ n * (out[k].endTime - out[k].startTime) = 55
       /\ n > 0 => out[1].startTime = FirstStart(call.subtitles)

\* C28: one scene per non-empty sentence, in order, each lasting 55 / n; the
\* first starts at the first subtitle's start; the cursor advances by
\* max(3 * share, 15) and is reset to the start of the middle subtitle when
\* it would exceed (last subtitle end - share); so every start is at most
\* last subtitle end - share or is the middle subtitle's start.
C28_FallbackScenes ==
  /\ C28_Shares
  /\ call.pc = "synthesized" =>
       LET out == call.out
           subs == call.subtitles
           limit(k) == LastEnd(subs) - (out[k].endTime - out[k].startTime)
           advanced(k) == out[k].startTime
                            + Max(3 * (out[k].endTime - out[k].startTime), 15)
       IN /\ \A k \in 1..(Len(out) - 1) :
               out[k + 1].startTime =
                 IF advanced(k) > limit(k) THEN MiddleStart(subs) ELSE advanced(k)
          /\ \A k \in DOMAIN out :
               out[k].startTime <= limit(k) \/ out[k].startTime = MiddleStart(subs)

\* ------------------------------------------------------------------------
\* Claims on the generate route's first steps
\* ------------------------------------------------------------------------
\* job j's generate request leaves the check of the source video, which is
\* not in its working directory
LeavesAccessWithoutVideo(j) ==
  /\ jobPc[j] = "access" /\ jobPc'[j] # "access"
  /\ ~Exists(VideoPath(j))

\* C29: when the downloaded video is not in the working directory the
\* generate request is answered 400, before any narration is synthesized,
\* any clip is extracted or any file is deleted.
C29_Step ==
  \A j \in Jobs :
    LeavesAccessWithoutVideo(j) =>
      /\ res'[j].status = 400
      /\ jobPc'[j] = "generated"
      /\ disk' = disk /\ made' = made

C29_NoGenerateWithoutVideo == [][C29_Step]_vars

\* ------------------------------------------------------------------------
\* GET /api/download/[videoId].  An identifier is a sequence of characters:
\* "a" a letter, "7" a digit, "_", "-", and "." and "/" for the others.
\* ------------------------------------------------------------------------
MaxIdLen == 2

IdChars == {"a", "7", "_", "-", ".", "/"}
Ids == SeqsUpTo(IdChars, MaxIdLen)

\* a route that tests nothing but !videoId
TestNonEmpty(id) == Len(id) > 0

\* videoId && /^[a-zA-Z0-9_-]+$/.test(videoId)
TestId(id) == Len(id) > 0 /\ \A i \in DOMAIN id : id[i] \in {"a", "7", "_", "-"}

InitDownload ==
  /\ NoRequest /\ NoPlan /\ NoSync /\ NoJobs /\ NoGen
  /\ \E id \in Ids, exists \in BOOLEAN :
       call = [pc |-> "test", videoId |-> id,
               exists |-> exists,     \* output/<videoId>_final.mp4 is there
               fsCalls |-> <<>>,      \* the file system calls made, in order
               status |-> 0, body |-> "none"]

\* the test of the identifier
DownloadTest ==
  /\ call.pc = "test"
  /\ UNCHANGED notCall
  /\ IF TestId(call.videoId)
       THEN call' = [call EXCEPT !.pc = "access"]
     ELSE call' = [call EXCEPT !.pc = "done", !.status = 400, !.body = "error"]

\* fs.access(filePath)
DownloadAccess ==
  /\ call.pc = "access"
  /\ UNCHANGED notCall
  /\ IF call.exists
       THEN call' = [call EXCEPT !.pc = "read", !.fsCalls = Append(@, "access")]
     ELSE call' = [call EXCEPT !.pc = "done", !.status = 404, !.body = "error",
                               !.fsCalls = Append(@, "access")]

\* fs.readFile and fs.stat, either of which may reject; the answer
DownloadRead ==
  /\ call.pc = "read"
  /\ UNCHANGED notCall
  /\ \E read \in BOOLEAN, stat \in BOOLEAN :
       /\ ~read => ~stat
       /\ call' = [call EXCEPT
            !.pc = "done",
            !.status = IF read /\ stat THEN 200 ELSE 500,
            !.body = IF read /\ stat THEN "file" ELSE "error",
            !.fsCalls = @ \o (IF read THEN <<"readFile", "stat">>
                              ELSE <<"readFile">>)]

NextDownload == DownloadTest \/ DownloadAccess \/ DownloadRead

SpecDownload == InitDownload /\ [][NextDownload]_vars

\* letters, digits, '_' and '-' only, and one character at least
WordCharsOnly(id) == id # <<>> /\ \A i \in DOMAIN id : id[i] \notin {".", "/"}

\* C30: a file is returned only for an identifier of letters, digits, '_'
\* and '-' whose final output exists; any other identifier gets 400 with no
\* file system call; a well-formed identifier without final output gets
\* 404; no call of the route writes or deletes.
C30_DownloadGuard ==
  call.pc # "off" =>
       /\ call.body = "file" =>
            call.status = 200 /\ WordCharsOnly(call.videoId) /\ call.exists
       /\ ~WordCharsOnly(call.videoId) =>
            /\ call.fsCalls = <<>>
            /\ call.pc # "test" => call.pc = "done" /\ call.status = 400
       /\ (WordCharsOnly(call.videoId) /\ ~call.exists /\ call.pc = "done") =>
            call.status = 404 /\ call.body = "error"
       /\ \A i \in DOMAIN call.fsCalls :
            call.fsCalls[i] \in {"access", "readFile", "stat"}

C30_Witness ==
  /\ call.pc = "done" /\ call.status = 200 /\ call.body = "file"
  /\ call.videoId = <<"a", "-">>
  /\ call.fsCalls = <<"access", "readFile", "stat">>

\* ------------------------------------------------------------------------
\* One job and one GET /api/download/[videoId] on the same output directory.
\* The burn-in is taken in two steps here: ffmpeg opens its output, which
\* creates or truncates it, and later exits.
\* ------------------------------------------------------------------------
\* the job that writes the output the request asks for
Writer == 1

\* addSubtitlesToVideo: ffmpeg -y opens videoPath and the .ass file, then
\* creates outputPath and starts to write it
BurnStart(j) ==
  /\ jobPc[j] = "burn"
  /\ UNCHANGED notJobs
  /\ \E opened \in BOOLEAN :
       IF opened /\ Exists(ShortPath(j)) /\ Exists(AssPath(j))
       THEN /\ Touch(j, {ShortPath(j), AssPath(j)}, {FinalPath(j)}, {})
            /\ Goto(j, "burning")
       ELSE Throws(j)
  /\ UNCHANGED <<jobVideo, progress, stages, clipIdx>>

\* addSubtitlesToVideo: ffmpeg exits; execAsync rejects on a non-zero exit
\* and nothing removes what was written of outputPath
BurnEnd(j) ==
  /\ jobPc[j] = "burning"
  /\ UNCHANGED notJobs
  /\ \E ok \in BOOLEAN :
       IF ok THEN Goto(j, "unlinkAss") /\ UNCHANGED <<disk, made, cross>>
       ELSE Throws(j)
  /\ UNCHANGED <<jobVideo, progress, stages, clipIdx>>

\* the generate route of the job has answered 200
Completed(j) ==
  \/ jobPc[j] = "generated" /\ res[j].status = 200
  \/ progress[j] = "done"

\* the .ass file is unlinked only after ffmpeg has exited with 0: while it
\* is there and the unlink is not the next step, the output is not whole
BurnUnfinished(j) ==
  /\ Exists(FinalPath(j))
  /\ Exists(AssPath(j)) /\ jobPc[j] # "unlinkAss"

\* path.join(outputDir, `${videoId}_final.mp4`)
ServedPath(id) == Path(OutputDir, id \o <<"_final", ".mp4">>)

InitServe ==
  /\ NoRequest /\ NoPlan /\ NoSync /\ NoGen
  /\ jobVideo = [j \in Jobs |-> <<"a">>]
  /\ jobPc = [j \in Jobs |-> "idle"]
  /\ progress = [j \in Jobs |-> "idle"]
  /\ stages = [j \in Jobs |-> <<>>]
  /\ res = [j \in Jobs |-> NoResponse]
  /\ clipIdx = [j \in Jobs |-> 0]
  /\ disk = {} /\ made = [j \in Jobs |-> {}] /\ cross = {}
  /\ call = [pc |-> "test", videoId |-> <<"a">>, status |-> 0,
             body |-> "none",
             content |-> "none",   \* what readFile returned
             complete |-> FALSE]   \* a job was complete when it was read

\* fs.access(filePath), on the files of the server
ServeAccess ==
  /\ call.pc = "access"
  /\ UNCHANGED notCall
  /\ IF Exists(ServedPath(call.videoId))
       THEN call' = [call EXCEPT !.pc = "read"]
     ELSE call' = [call EXCEPT !.pc = "done", !.status = 404, !.body = "error"]

\* fs.readFile and fs.stat, and the answer with the buffer
ServeRead ==
  /\ call.pc = "read"
  /\ UNCHANGED notCall
  /\ call' = [call EXCEPT
       !.pc = "done", !.status = 200, !.body = "file",
       !.content = IF \E j \in Jobs : /\ FinalPath(j) = ServedPath(call.videoId)
                                      /\ BurnUnfinished(j)
                   THEN "partial" ELSE "whole",
       !.complete = \E j \in Jobs :
                      jobVideo[j] = call.videoId /\ Completed(j)]

NextServe ==
  \/ DownloadTest
  \/ ServeAccess
  \/ ServeRead
  \/ Submit(Writer)
  \/ JobDownloadVideo(Writer)
  \/ JobExtractAudio(Writer)
  \/ JobDownloadSubtitles(Writer)
  \/ JobTranscribe(Writer)
  \/ Extracted(Writer)
  \/ JobAnalyze(Writer)
  \/ Analyzed(Writer)
  \/ GenAccess(Writer)
  \/ GenNarration(Writer)
  \/ GenClip(Writer)
  \/ GenConcatFile(Writer)
  \/ GenConcat(Writer)
  \/ GenAdjust(Writer)
  \/ GenMux(Writer)
  \/ GenCap(Writer)
  \/ GenUnlinkShort(Writer)
  \/ GenRename(Writer)
  \/ cleanupIntermediateFiles(Writer)
  \/ BurnWriteAss(Writer)
  \/ BurnStart(Writer)
  \/ BurnEnd(Writer)
  \/ BurnUnlinkAss(Writer)
  \/ TmpCleanup(Writer)
  \/ Generated(Writer)

SpecServe == InitServe /\ [][NextServe]_vars

\* C31: the download endpoint returns the final output of an identifier only
\* when a generate job for that identifier has completed, and what it
\* returns is never an output that ffmpeg is still writing or gave up on.
C31_ServesOnlyCompleteOutput ==
  call.body = "file" => call.complete /\ call.content = "whole"

\* the request is answered with a file that ffmpeg is still writing
C31_ServedInFlight ==
  /\ call.body = "file" /\ call.content = "partial"
  /\ jobPc[Writer] = "burning"

\* the request is answered with the file a failed burn-in left behind
C31_ServedAfterFailure ==
  /\ call.body = "file" /\ call.content = "partial"
  /\ progress[Writer] = "error"

\* ------------------------------------------------------------------------
\* The narration duration of the speed synchronizer
\* ------------------------------------------------------------------------
\* the ffprobe run on the narration file is the first subprocess
NarrationProbe == gen.ran[1]

\* C32: the narration duration the speed synchronizer works with is what
\* ffprobe measured on the narration file, 55 s when that run failed, and
\* never the estimate that came with the narration; a failed measurement
\* does not fail the request.
C32_MeasuredNarrationDuration ==
  gen.pc \notin {"off", "probeNarration"} =>
    LET Dn == IF NarrationProbe.ok THEN gen.narration ELSE FallbackDuration
        Dv == gen.videoDuration
    IN /\ NarrationProbe.name = "ffprobe"
       /\ gen.narrationDuration = Dn
       /\ gen.adjusted.how # "none" =>
            /\ (gen.adjusted.how = "setpts") = (10 * Abs(Dv - Dn) > Dn)
            /\ gen.adjusted.how = "setpts" =>
                 gen.adjusted.duration = (gen.concat * Dn) \div Dv
       /\ gen.status = 500 => Last(gen.ran).name # "ffprobe"

\* the measurement failed, the estimate was 6 s, and the request went on
\* with 55 s to its answer
C32_Witness ==
  /\ gen.pc = "done" /\ gen.status = 200
  /\ ~NarrationProbe.ok
  /\ gen.narrationDuration = FallbackDuration
  /\ gen.tts.duration = 600
  /\ gen.adjusted.how = "setpts"

\* ------------------------------------------------------------------------
\* Two runs of generateShort and addSubtitlesToVideo, side by side, on scene
\* lists that differ in endTime only.  Times are in hundredths of a second;
\* every ffmpeg run succeeds in both.
\* ------------------------------------------------------------------------
MaxPairScenes == 2

PairStarts == {0, 500}
PairEnds == {700, 1500}
PairTexts == {Words(1), Words(15)}

PairLists ==
  SeqsUpTo({[startTime |-> s, endTime |-> e, narrationText |-> t] :
              s \in PairStarts, e \in PairEnds, t \in PairTexts}, MaxPairScenes)

SameButEndTime(a, b) ==
  /\ Len(a) = Len(b)
  /\ \A k \in DOMAIN a : /\ a[k].startTime = b[k].startTime
                         /\ a[k].narrationText = b[k].narrationText

\* a clip loop that cuts each scene from its startTime to its endTime
ClipRequestToEnd(scene) ==
  [ss |-> scene.startTime, t |-> scene.endTime - scene.startTime]

\* ffmpeg -y -ss ${scene.startTime} -i videoPath -t ${clipDuration} ...
ClipRequest(scene) ==
  [ss |-> scene.startTime, t |-> clipDuration(scene.narrationText)]

PairRun(list) ==
  [pc |-> "clip", scenes |-> list, i |-> 0,
   requests |-> <<>>,    \* the -ss and -t of the ffmpeg runs, in order
   events |-> <<>>]      \* the Dialogue lines of the .ass file

InitPair ==
  /\ NoRequest /\ NoPlan /\ NoSync /\ NoJobs /\ NoGen
  /\ \E a \in PairLists, b \in PairLists :
       /\ SameButEndTime(a, b)
       /\ call = [pc |-> "pair", runs |-> <<PairRun(a), PairRun(b)>>]

\* one turn of the clip loop of run r
PairClip(r) ==
  /\ call.pc = "pair" /\ call.runs[r].pc = "clip"
  /\ call.runs[r].i < Len(call.runs[r].scenes)
  /\ UNCHANGED notCall
  /\ call' = [call EXCEPT
       !.runs[r].requests =
          Append(@, ClipRequest(call.runs[r].scenes[call.runs[r].i + 1])),
       !.runs[r].i = @ + 1]

\* addSubtitlesToVideo of run r, after the loop
PairCaptions(r) ==
  /\ call.pc = "pair" /\ call.runs[r].pc = "clip"
  /\ call.runs[r].i = Len(call.runs[r].scenes)
  /\ UNCHANGED notCall
  /\ call' = [call EXCEPT
       !.runs[r].events = generateASSSubtitles(call.runs[r].scenes),
       !.runs[r].pc = "done"]

NextPair == \E r \in {1, 2} : PairClip(r) \/ PairCaptions(r)

SpecPair == InitPair /\ [][NextPair]_vars

\* C33: two runs whose scene lists differ in endTime only ask ffmpeg for the
\* same source intervals [startTime, startTime + clipDuration), with the same
\* clip durations, and write the same caption events.
C33_EndTimeIgnored ==
  call.pc = "pair" =>
    LET x == call.runs[1]
        y == call.runs[2]
    IN /\ \A k \in 1..Min(Len(x.requests), Len(y.requests)) :
            /\ x.requests[k] = y.requests[k]
            /\ x.requests[k].ss = x.scenes[k].startTime
            /\ x.requests[k].t = Clamp(44 * SplitLength(x.scenes[k].narrationText),
                                       200, 800)
       /\ (x.pc = "done" /\ y.pc = "done") =>
            /\ x.requests = y.requests /\ Len(x.requests) = Len(x.scenes)
            /\ x.events = y.events /\ Len(x.events) = Len(x.scenes)

C33_Witness ==
  /\ call.pc = "pair"
  /\ call.runs[1].pc = "done" /\ call.runs[2].pc = "done"
  /\ Len(call.runs[1].scenes) = 2
  /\ \A k \in 1..2 : call.runs[1].scenes[k].endTime # call.runs[2].scenes[k].endTime
  /\ call.runs[1].requests = <<[ss |-> 500, t |-> 660], [ss |-> 0, t |-> 200]>>
  /\ call.runs[2].requests = call.runs[1].requests
  /\ Len(call.runs[2].events) = 2

\* ------------------------------------------------------------------------
\* validateScenes, with its argument kept beside its result
\* ------------------------------------------------------------------------
FrameTimes == {-3, 4, 304}
FrameTexts == {"one", "two"}

FrameScenes ==
  SeqsUpTo({[startTime |-> a, endTime |-> b, narrationText |-> t] :
              a \in FrameTimes, b \in FrameTimes, t \in FrameTexts}, MaxScenes)

FrameSubtitles == {<<>>, <<[start |-> 0, end |-> 10, text |-> "t"]>>}

InitFrame ==
  /\ NoRequest /\ NoPlan /\ NoSync /\ NoJobs /\ NoGen
  /\ \E list \in FrameScenes, subs \in FrameSubtitles :
       call = [pc |-> "validate", scenes |-> list, subtitles |-> subs,
               result |-> <<>>]

\* const validated = validateScenes(scenes, subtitles)
ValidateFrame ==
  /\ call.pc = "validate"
  /\ UNCHANGED notCall
  /\ call' = [call EXCEPT !.pc = "validated",
                          !.result = validateScenes(call.scenes, call.subtitles)]

NextFrame == ValidateFrame

SpecFrame == InitFrame /\ [][NextFrame]_vars

\* C34: validateScenes returns as many scenes as it was given, in the same
\* order and each with the narrationText it came with; of no scenes it
\* returns none.
C34_LengthOrderText ==
  call.pc = "validated" =>
    /\ Len(call.result) = Len(call.scenes)
    /\ \A i \in DOMAIN call.scenes :
         /\ call.result[i].narrationText = call.scenes[i].narrationText
         /\ DOMAIN call.result[i] = {"startTime", "endTime", "narrationText"}
    /\ call.scenes = <<>> => call.result = <<>>

\* two scenes with different texts, both times of the first repaired
C34_Witness ==
  /\ call.pc = "validated"
  /\ Len(call.scenes) = 2
  /\ call.scenes[1].narrationText = "two" /\ call.scenes[2].narrationText = "one"
  /\ call.result[1].narrationText = "two" /\ call.result[2].narrationText = "one"
  /\ call.result[1].startTime # call.scenes[1].startTime
  /\ call.result[1].endTime # call.scenes[1].endTime

====
